---- MODULE Spec2Model ----
(***************************************************************************)
(* A model of livedom's range algorithms (RangeAlgorithmImpl), tree walker  *)
(* algorithms (TreeWalkerAlgorithmImpl) and attribute algorithms           *)
(* (ElementAlgorithmImpl) over a small arena of DOM nodes, the list of     *)
(* live ranges of a document and the infra queue.  The tree               *)
(* queries, the boundary point comparison, the node mutation primitives,   *)
(* the node filter and the mutation observer the algorithms call are       *)
(* collaborators; they are modelled from their contracts.                  *)
(***************************************************************************)
EXTENDS Integers, Sequences, FiniteSets, TLC

\* ------------------------------------------------------------------ bounds
MaxNodes == 12          \* size of the node arena
MaxOffset == 4          \* largest offset a caller passes to setStart/setEnd
MaxSteps == 1           \* number of calls in one run
MaxAttrs == 4           \* size of the attribute arena
MaxCalls == 2           \* number of attribute calls in one run
MaxRanges == 4          \* number of live ranges a document makes
MaxItems == 2           \* number of values callers put into a queue
MaxEnqueues == 5        \* number of enqueue calls in one run

Null == 0
Nodes == 1..MaxNodes

VARIABLES dom, range, result, steps, walker, attributes, rangeList, queue

vars ==
  <<dom, range, result, steps, walker, attributes, rangeList, queue>>

\* ------------------------------------------------------------- node guards
isDocumentTypeNode(t, n) == t.nodeType[n] = "doctype"
isTextNode(t, n) == t.nodeType[n] = "text"
isCommentNode(t, n) == t.nodeType[n] = "comment"
isProcessingInstructionNode(t, n) == t.nodeType[n] = "pi"
isDocumentFragmentNode(t, n) == t.nodeType[n] = "fragment"
isCharacterDataNode(t, n) == t.nodeType[n] \in {"text", "comment", "pi"}

\* -------------------------------------------------------------- tree index
RECURSIVE rootNode(_, _)
rootNode(t, n) ==
  IF t.parent[n] = Null THEN n ELSE rootNode(t, t.parent[n])

\* isAncestorOf(node, other, self): other is an ancestor of node; with self
\* the node itself counts.
RECURSIVE isAncestorOf(_, _, _, _)
isAncestorOf(t, node, other, self) ==
  IF self /\ node = other THEN TRUE
  ELSE IF t.parent[node] = Null THEN FALSE
  ELSE isAncestorOf(t, t.parent[node], other, TRUE)

\* position of x in the sequence s, counted from 0 (Len(s) when absent)
RECURSIVE indexOf(_, _)
indexOf(s, x) ==
  IF s = <<>> THEN 0
  ELSE IF Head(s) = x THEN 0
  ELSE 1 + indexOf(Tail(s), x)

\* the number of preceding siblings; 0 for a node without a parent
index(t, n) ==
  IF t.parent[n] = Null THEN 0 ELSE indexOf(t.childNodes[t.parent[n]], n)

nodeLength(t, n) ==
  IF isDocumentTypeNode(t, n) THEN 0
  ELSE IF isCharacterDataNode(t, n) THEN Len(t.data[n])
  ELSE Len(t.childNodes[n])

nextSibling(t, n) ==
  IF t.parent[n] = Null THEN Null
  ELSE LET cs == t.childNodes[t.parent[n]]
           i == index(t, n) + 1
       IN IF i + 1 <= Len(cs) THEN cs[i + 1] ELSE Null

\* the child of anc that is n or contains n (anc is a strict ancestor of n)
RECURSIVE childToward(_, _, _)
childToward(t, anc, n) ==
  IF t.parent[n] = anc THEN n ELSE childToward(t, anc, t.parent[n])

\* nearest inclusive ancestor of a that is an inclusive ancestor of b
RECURSIVE nearestCommonAncestor(_, _, _)
nearestCommonAncestor(t, a, b) ==
  IF a = Null THEN Null
  ELSE IF isAncestorOf(t, b, a, TRUE) THEN a
  ELSE nearestCommonAncestor(t, t.parent[a], b)

\* ---------------------------------------------------------- boundary points
\* position of boundary point A relative to B.  For two points of different
\* trees the relation is not defined; cross is what the comparison yields
\* there.
\* mutant: a point of an ancestor at the index of the child that holds the
\* other point is taken to lie after it
position_atChildIsAfter(t, A, B, cross) ==
  LET nodeA == A[1]
      nodeB == B[1]
  IN IF nodeA = nodeB
       THEN IF A[2] = B[2] THEN "Equal"
            ELSE IF A[2] < B[2] THEN "Before" ELSE "After"
     ELSE IF nodeA = Null \/ nodeB = Null THEN cross
     ELSE IF rootNode(t, nodeA) # rootNode(t, nodeB) THEN cross
     ELSE IF isAncestorOf(t, nodeB, nodeA, FALSE)
       THEN IF A[2] < index(t, childToward(t, nodeA, nodeB))
              THEN "Before" ELSE "After"
     ELSE IF isAncestorOf(t, nodeA, nodeB, FALSE)
       THEN IF B[2] <= index(t, childToward(t, nodeB, nodeA))
              THEN "After" ELSE "Before"
     ELSE LET c == nearestCommonAncestor(t, nodeA, nodeB)
          IN IF index(t, childToward(t, c, nodeA)) <
                index(t, childToward(t, c, nodeB))
               THEN "Before" ELSE "After"

position(t, A, B, cross) ==
  LET nodeA == A[1]
      nodeB == B[1]
  IN IF nodeA = nodeB
       THEN IF A[2] = B[2] THEN "Equal"
            ELSE IF A[2] < B[2] THEN "Before" ELSE "After"
     ELSE IF nodeA = Null \/ nodeB = Null THEN cross
     ELSE IF rootNode(t, nodeA) # rootNode(t, nodeB) THEN cross
     ELSE IF isAncestorOf(t, nodeB, nodeA, FALSE)
       THEN IF A[2] <= index(t, childToward(t, nodeA, nodeB))
              THEN "Before" ELSE "After"
     ELSE IF isAncestorOf(t, nodeA, nodeB, FALSE)
       THEN IF B[2] <= index(t, childToward(t, nodeB, nodeA))
              THEN "After" ELSE "Before"
     ELSE LET c == nearestCommonAncestor(t, nodeA, nodeB)
          IN IF index(t, childToward(t, c, nodeA)) <
                index(t, childToward(t, c, nodeB))
               THEN "Before" ELSE "After"

Positions == {"Before", "Equal", "After"}

\* ------------------------------------------------------------------- state
\* <r><a>hel</a><b/><c>lo</c></r> and a text node "q" of its own
Forest1 ==
  [nodeType |-> [n \in Nodes |->
      IF n \in {1, 2, 3, 4} THEN "element"
      ELSE IF n \in {5, 6, 7} THEN "text" ELSE "free"],
   localName |-> [n \in Nodes |->
      IF n = 1 THEN "r" ELSE IF n = 2 THEN "a" ELSE IF n = 3 THEN "b"
      ELSE IF n = 4 THEN "c" ELSE ""],
   parent |-> [n \in Nodes |->
      IF n \in {2, 3, 4} THEN 1 ELSE IF n = 5 THEN 2
      ELSE IF n = 6 THEN 4 ELSE Null],
   childNodes |-> [n \in Nodes |->
      IF n = 1 THEN <<2, 3, 4>> ELSE IF n = 2 THEN <<5>>
      ELSE IF n = 4 THEN <<6>> ELSE <<>>],
   data |-> [n \in Nodes |->
      IF n = 5 THEN <<"h", "e", "l">> ELSE IF n = 6 THEN <<"l", "o">>
      ELSE IF n = 7 THEN <<"q">> ELSE <<>>]]

\* a document <!DOCTYPE><html><!--x--><?y?></html> and a text node "q"
Forest2 ==
  [nodeType |-> [n \in Nodes |->
      IF n = 1 THEN "document" ELSE IF n = 2 THEN "doctype"
      ELSE IF n = 3 THEN "element" ELSE IF n = 4 THEN "comment"
      ELSE IF n = 5 THEN "pi" ELSE IF n = 6 THEN "text" ELSE "free"],
   localName |-> [n \in Nodes |->
      IF n = 2 THEN "html" ELSE IF n = 3 THEN "html" ELSE ""],
   parent |-> [n \in Nodes |->
      IF n \in {2, 3} THEN 1 ELSE IF n \in {4, 5} THEN 3 ELSE Null],
   childNodes |-> [n \in Nodes |->
      IF n = 1 THEN <<2, 3>> ELSE IF n = 3 THEN <<4, 5>> ELSE <<>>],
   data |-> [n \in Nodes |->
      IF n = 4 THEN <<"x">> ELSE IF n = 5 THEN <<"y">>
      ELSE IF n = 6 THEN <<"q">> ELSE <<>>]]

NoResult ==
  [op |-> "none", node |-> Null, offset |-> 0, thrown |-> "none",
   ret |-> Null, original |-> <<>>]

\* no tree walker has been made
NoWalker ==
  [root |-> Null, current |-> Null, filter |-> <<>>, pc |-> "idle",
   op |-> "none", forward |-> TRUE, node |-> Null, sibling |-> Null,
   filtered |-> {}, ret |-> Null]

\* no element has an attribute engine state
NoAttributes ==
  [list |-> <<>>, attr |-> <<>>, queue |-> <<>>, log |-> <<>>, call |-> <<>>]

\* the boundary points of the tree t
BoundaryPoints(t) ==
  {bp \in Nodes \X (0..MaxOffset) :
     /\ t.nodeType[bp[1]] \notin {"free", "doctype"}
     /\ bp[2] <= nodeLength(t, bp[1])}

\* a range of one tree whose start is not after its end
Init ==
  /\ dom \in {Forest1, Forest2}
  /\ \E s \in BoundaryPoints(dom), e \in BoundaryPoints(dom) :
       /\ rootNode(dom, s[1]) = rootNode(dom, e[1])
       /\ position(dom, s, e, "Undefined") \in {"Before", "Equal"}
       /\ range = [start |-> s, end |-> e]
  /\ result = NoResult
  /\ steps = 0
  /\ walker = NoWalker
  /\ attributes = NoAttributes
  /\ rangeList = <<>>
  /\ queue = <<>>

Allocated == {n \in Nodes : dom.nodeType[n] # "free"}

\* ------------------------------------------------- node mutation primitives
\* The primitives work on a record w: the node arena w.dom, the live range
\* w.range that the document keeps valid, the error thrown so far w.thrown
\* and the value returned by the last primitive w.ret.  Once an error is
\* thrown the remaining steps of a call are skipped.
throw(w, e) == [w EXCEPT !.thrown = e, !.ret = Null]

RECURSIVE firstFree(_, _)
firstFree(t, n) ==
  IF n > MaxNodes THEN Null
  ELSE IF t.nodeType[n] = "free" THEN n ELSE firstFree(t, n + 1)

\* a new node without parent or children
create_node(w, type, name, chars) ==
  IF w.thrown # "none" THEN w
  ELSE LET n == firstFree(w.dom, 1)
       IN IF n = Null THEN throw(w, "OutOfNodes")
          ELSE [w EXCEPT !.dom.nodeType[n] = type,
                         !.dom.localName[n] = name,
                         !.dom.data[n] = chars,
                         !.ret = n]

create_documentFragment(w) == create_node(w, "fragment", "", <<>>)

\* a copy of node without its children (the clone children flag is unset)
node_clone(w, node) ==
  IF w.thrown # "none" THEN w
  ELSE create_node(w, w.dom.nodeType[node], w.dom.localName[node],
                   w.dom.data[node])

without(s, x) == SelectSeq(s, LAMBDA y : y # x)

\* remove node from its parent; a boundary point of the live range inside
\* node moves to (parent, index), one after node in parent moves down by one
mutation_remove(w, node) ==
  IF w.thrown # "none" THEN w
  ELSE LET t == w.dom
           parent == t.parent[node]
           idx == index(t, node)
           adj(bp) ==
             IF bp[1] = Null THEN bp
             ELSE IF isAncestorOf(t, bp[1], node, TRUE) THEN <<parent, idx>>
             ELSE IF bp[1] = parent /\ bp[2] > idx THEN <<parent, bp[2] - 1>>
             ELSE bp
       IN [w EXCEPT !.dom.childNodes[parent] = without(@, node),
                    !.dom.parent[node] = Null,
                    !.range = [start |-> adj(w.range.start),
                               end |-> adj(w.range.end)]]

RECURSIVE removeAll(_, _)
removeAll(w, parent) ==
  IF w.thrown # "none" \/ w.dom.childNodes[parent] = <<>> THEN w
  ELSE removeAll(mutation_remove(w, Head(w.dom.childNodes[parent])), parent)

\* the nodes enter parent before child; a boundary point of the live range
\* in parent after child moves up by their number
insertNodes(w, nodes, parent, child) ==
  LET cs == w.dom.childNodes[parent]
      at == IF child = Null THEN Len(cs) ELSE index(w.dom, child)
      adj(bp) ==
        IF child # Null /\ bp[1] = parent /\ bp[2] > at
          THEN <<parent, bp[2] + Len(nodes)>> ELSE bp
  IN IF w.thrown # "none" \/ nodes = <<>> THEN w
     ELSE [w EXCEPT
            !.dom.childNodes[parent] =
               SubSeq(cs, 1, at) \o nodes \o SubSeq(cs, at + 1, Len(cs)),
            !.dom.parent = [n \in Nodes |->
               IF \E i \in 1..Len(nodes) : nodes[i] = n THEN parent ELSE @[n]],
            !.range = [start |-> adj(w.range.start),
                       end |-> adj(w.range.end)]]

\* insert node (or the children of a fragment) into parent before child
mutation_insert(w, node, parent, child) ==
  IF w.thrown # "none" THEN w
  ELSE IF isDocumentFragmentNode(w.dom, node)
    THEN insertNodes(removeAll(w, node), w.dom.childNodes[node], parent, child)
  ELSE insertNodes(w, <<node>>, parent, child)

HasChildOfType(t, p, type) ==
  \E i \in 1..Len(t.childNodes[p]) : t.nodeType[t.childNodes[p][i]] = type

CountChildrenOfType(t, p, type) ==
  Cardinality({i \in 1..Len(t.childNodes[p]) :
                 t.nodeType[t.childNodes[p][i]] = type})

\* some sibling after child (or before it) has the given type
TypeFollowing(t, child, type) ==
  LET cs == t.childNodes[t.parent[child]]
  IN \E i \in 1..Len(cs) : i > index(t, child) + 1 /\ t.nodeType[cs[i]] = type

TypePreceding(t, child, type) ==
  LET cs == t.childNodes[t.parent[child]]
  IN \E i \in 1..Len(cs) : i < index(t, child) + 1 /\ t.nodeType[cs[i]] = type

\* the error the pre-insertion validity check raises, "none" when it passes
ensurePreInsertionValidity(t, node, parent, child) ==
  LET type == t.nodeType[node]
      elementClash ==
        \/ HasChildOfType(t, parent, "element")
        \/ (child # Null /\ t.nodeType[child] = "doctype")
        \/ (child # Null /\ TypeFollowing(t, child, "doctype"))
  IN IF t.nodeType[parent] \notin {"document", "fragment", "element"}
       THEN "HierarchyRequestError"
     ELSE IF isAncestorOf(t, parent, node, TRUE)
       THEN "HierarchyRequestError"
     ELSE IF child # Null /\ t.parent[child] # parent
       THEN "NotFoundError"
     ELSE IF type \notin {"fragment", "doctype", "element", "text", "pi",
                          "comment"}
       THEN "HierarchyRequestError"
     ELSE IF (type = "text" /\ t.nodeType[parent] = "document")
             \/ (type = "doctype" /\ t.nodeType[parent] # "document")
       THEN "HierarchyRequestError"
     ELSE IF t.nodeType[parent] # "document" THEN "none"
     ELSE IF type = "fragment"
       THEN IF \/ CountChildrenOfType(t, node, "element") > 1
               \/ HasChildOfType(t, node, "text")
               \/ (CountChildrenOfType(t, node, "element") = 1
                   /\ elementClash)
              THEN "HierarchyRequestError" ELSE "none"
     ELSE IF type = "element"
       THEN IF elementClash THEN "HierarchyRequestError" ELSE "none"
     ELSE IF type = "doctype"
       THEN IF \/ HasChildOfType(t, parent, "doctype")
               \/ (child # Null /\ TypePreceding(t, child, "element"))
               \/ (child = Null /\ HasChildOfType(t, parent, "element"))
              THEN "HierarchyRequestError" ELSE "none"
     ELSE "none"

\* validity check, then node leaves its old parent and enters parent
mutation_preInsert(w, node, parent, child) ==
  IF w.thrown # "none" THEN w
  ELSE IF ensurePreInsertionValidity(w.dom, node, parent, child) # "none"
    THEN throw(w, ensurePreInsertionValidity(w.dom, node, parent, child))
  ELSE [mutation_insert(
          IF w.dom.parent[node] # Null THEN mutation_remove(w, node) ELSE w,
          node, parent,
          IF child = node THEN nextSibling(w.dom, node) ELSE child)
        EXCEPT !.ret = node]

\* Node.appendChild and ParentNode.append with one node
appendChild(w, parent, node) == mutation_preInsert(w, node, parent, Null)

\* the characters [offset, offset + count) of node's data
characterData_substringData(t, node, offset, count) ==
  LET len == Len(t.data[node])
      last == IF offset + count > len THEN len ELSE offset + count
  IN SubSeq(t.data[node], offset + 1, last)

\* replace count characters at offset by newData; a boundary point of the
\* live range inside the replaced characters moves to offset, one after them
\* moves with the remaining text
characterData_replaceData(w, node, offset, count, newData) ==
  IF w.thrown # "none" THEN w
  ELSE LET len == Len(w.dom.data[node])
           cnt == IF offset + count > len THEN len - offset ELSE count
           adj(bp) ==
             IF bp[1] = node /\ bp[2] > offset /\ bp[2] <= offset + cnt
               THEN <<node, offset>>
             ELSE IF bp[1] = node /\ bp[2] > offset + cnt
               THEN <<node, bp[2] + Len(newData) - cnt>>
             ELSE bp
       IN IF offset > len THEN throw(w, "IndexSizeError")
          ELSE [w EXCEPT
                 !.dom.data[node] =
                    SubSeq(@, 1, offset) \o newData
                      \o SubSeq(@, offset + cnt + 1, len),
                 !.range = [start |-> adj(w.range.start),
                            end |-> adj(w.range.end)]]

\* the live range follows the split: a point behind offset moves into the
\* new node, a point right after node in its parent moves behind the new node
splitAdjust(w, t, node, offset, newNode) ==
  LET parent == t.parent[node]
      adj(bp) ==
        IF bp[1] = node /\ bp[2] > offset
          THEN <<newNode, bp[2] - offset>>
        ELSE IF bp[1] = parent /\ bp[2] = index(t, node) + 1
          THEN <<parent, bp[2] + 1>>
        ELSE bp
  IN IF w.thrown # "none" \/ parent = Null THEN w
     ELSE [w EXCEPT !.range = [start |-> adj(w.range.start),
                               end |-> adj(w.range.end)]]

\* the new node wN.ret enters the parent of node behind node, the live range
\* is adjusted and the tail leaves the data of node
splitInto(wN, t, node, offset) ==
  IF wN.thrown # "none" THEN wN
  ELSE [characterData_replaceData(
          splitAdjust(
            IF t.parent[node] = Null THEN wN
            ELSE mutation_insert(wN, wN.ret, t.parent[node],
                                 nextSibling(t, node)),
            t, node, offset, wN.ret),
          node, offset, Len(t.data[node]) - offset, <<>>)
        EXCEPT !.ret = wN.ret]

\* split a text node at offset; returns the new node holding the tail
text_split(w, node, offset) ==
  IF w.thrown # "none" THEN w
  ELSE IF offset > Len(w.dom.data[node]) THEN throw(w, "IndexSizeError")
  ELSE splitInto(
         create_node(w, "text", "",
           characterData_substringData(w.dom, node, offset,
                                       Len(w.dom.data[node]) - offset)),
         w.dom, node, offset)


\* ---------------------------------------------------------- range algorithms
\* mutant: the two boundary point tuples are compared by reference
collapsed_byReference(r) == FALSE

collapsed(r) == r.start[1] = r.end[1] /\ r.start[2] = r.end[2]

root(t, r) == rootNode(t, r.start[1])

\* mutant: the end of the range is not looked at
isContained_ignoresEnd(t, node, r) ==
  /\ rootNode(t, node) = root(t, r)
  /\ position(t, <<node, 0>>, r.start, "Undefined") = "After"

\* mutant: the start of the node is compared with the end of the range
isContained_fromNodeStart(t, node, r) ==
  /\ rootNode(t, node) = root(t, r)
  /\ position(t, <<node, 0>>, r.start, "Undefined") = "After"
  /\ position(t, <<node, 0>>, r.end, "Undefined") = "Before"

isContained(t, node, r) ==
  /\ rootNode(t, node) = root(t, r)
  /\ position(t, <<node, 0>>, r.start, "Undefined") = "After"
  /\ position(t, <<node, nodeLength(t, node)>>, r.end, "Undefined") = "Before"

isPartiallyContained(t, node, r) ==
  LET startCheck == isAncestorOf(t, r.start[1], node, TRUE)
      endCheck == isAncestorOf(t, r.end[1], node, TRUE)
  IN (startCheck /\ ~endCheck) \/ (~startCheck /\ endCheck)

\* mutant: the end is never snapped
setTheStart_keepsEnd(w, node, offset, cross) ==
  IF isDocumentTypeNode(w.dom, node) THEN throw(w, "InvalidNodeTypeError")
  ELSE IF offset > nodeLength(w.dom, node) THEN throw(w, "IndexSizeError")
  ELSE [w EXCEPT !.range.start = <<node, offset>>]

\* mutant: the offset is checked before the node type
setTheStart_offsetCheckFirst(w, node, offset, cross) ==
  IF offset > nodeLength(w.dom, node) THEN throw(w, "IndexSizeError")
  ELSE IF isDocumentTypeNode(w.dom, node)
    THEN throw(w, "InvalidNodeTypeError")
  ELSE LET bp == <<node, offset>>
       IN IF \/ position(w.dom, bp, w.range.end, cross) = "After"
             \/ root(w.dom, w.range) # rootNode(w.dom, node)
            THEN [w EXCEPT !.range = [start |-> bp, end |-> bp]]
            ELSE [w EXCEPT !.range.start = bp]

\* mutant: the end is snapped before the offset is checked
setTheStart_snapsBeforeOffsetCheck(w, node, offset, cross) ==
  LET bp == <<node, offset>>
      snapped ==
        IF \/ position(w.dom, bp, w.range.end, cross) = "After"
           \/ root(w.dom, w.range) # rootNode(w.dom, node)
          THEN [w EXCEPT !.range.end = bp] ELSE w
  IN IF isDocumentTypeNode(w.dom, node)
       THEN throw(w, "InvalidNodeTypeError")
     ELSE IF offset > nodeLength(w.dom, node)
       THEN throw(snapped, "IndexSizeError")
     ELSE [snapped EXCEPT !.range.start = bp]

setTheStart(w, node, offset, cross) ==
  IF isDocumentTypeNode(w.dom, node) THEN throw(w, "InvalidNodeTypeError")
  ELSE IF offset > nodeLength(w.dom, node) THEN throw(w, "IndexSizeError")
  ELSE LET bp == <<node, offset>>
       IN IF \/ position(w.dom, bp, w.range.end, cross) = "After"
             \/ root(w.dom, w.range) # rootNode(w.dom, node)
            THEN [w EXCEPT !.range = [start |-> bp, end |-> bp]]
            ELSE [w EXCEPT !.range.start = bp]

\* the pairs of boundary points setTheStart hands to position: the left
\* operand of || at line 87 is evaluated whenever the two checks are passed
setTheStart_compares(w, node, offset) ==
  IF isDocumentTypeNode(w.dom, node) THEN {}
  ELSE IF offset > nodeLength(w.dom, node) THEN {}
  ELSE {<<(<<node, offset>>), w.range.end>>}

\* the pairs of boundary points setTheEnd hands to position, line 116
setTheEnd_compares(w, node, offset) ==
  IF isDocumentTypeNode(w.dom, node) THEN {}
  ELSE IF offset > nodeLength(w.dom, node) THEN {}
  ELSE {<<(<<node, offset>>), w.range.start>>}

\* mutant: the root of node is not compared with the root of the range
setTheEnd_noRootCheck(w, node, offset, cross) ==
  IF isDocumentTypeNode(w.dom, node) THEN throw(w, "InvalidNodeTypeError")
  ELSE IF offset > nodeLength(w.dom, node) THEN throw(w, "IndexSizeError")
  ELSE LET bp == <<node, offset>>
       IN IF position(w.dom, bp, w.range.start, cross) = "Before"
            THEN [w EXCEPT !.range = [start |-> bp, end |-> bp]]
            ELSE [w EXCEPT !.range.end = bp]

\* mutant: the comparison of setTheStart is used
setTheEnd_comparesAfter(w, node, offset, cross) ==
  IF isDocumentTypeNode(w.dom, node) THEN throw(w, "InvalidNodeTypeError")
  ELSE IF offset > nodeLength(w.dom, node) THEN throw(w, "IndexSizeError")
  ELSE LET bp == <<node, offset>>
       IN IF \/ position(w.dom, bp, w.range.start, cross) = "After"
             \/ root(w.dom, w.range) # rootNode(w.dom, node)
            THEN [w EXCEPT !.range = [start |-> bp, end |-> bp]]
            ELSE [w EXCEPT !.range.end = bp]

setTheEnd(w, node, offset, cross) ==
  IF isDocumentTypeNode(w.dom, node) THEN throw(w, "InvalidNodeTypeError")
  ELSE IF offset > nodeLength(w.dom, node) THEN throw(w, "IndexSizeError")
  ELSE LET bp == <<node, offset>>
       IN IF \/ position(w.dom, bp, w.range.start, cross) = "Before"
             \/ root(w.dom, w.range) # rootNode(w.dom, node)
            THEN [w EXCEPT !.range = [start |-> bp, end |-> bp]]
            ELSE [w EXCEPT !.range.end = bp]

\* mutant: the end is put before node instead of behind it
select_emptySpan(w, node) ==
  LET parent == w.dom.parent[node]
      idx == index(w.dom, node)
  IN IF parent = Null THEN throw(w, "InvalidNodeTypeError")
     ELSE [w EXCEPT !.range = [start |-> <<parent, idx>>,
                               end |-> <<parent, idx>>]]

\* mutant: the end offset is counted from the start offset the range had
select_endFromOldStart(w, node) ==
  LET parent == w.dom.parent[node]
      idx == index(w.dom, node)
  IN IF parent = Null THEN throw(w, "InvalidNodeTypeError")
     ELSE [w EXCEPT !.range = [start |-> <<parent, idx>>,
                               end |-> <<parent, w.range.start[2] + 1>>]]

select(w, node) ==
  LET parent == w.dom.parent[node]
      idx == index(w.dom, node)
  IN IF parent = Null THEN throw(w, "InvalidNodeTypeError")
     ELSE [w EXCEPT !.range = [start |-> <<parent, idx>>,
                               end |-> <<parent, idx + 1>>]]

\* steps 5-6 of extract and of cloneTheContents
commonAncestorOf(t, r) == nearestCommonAncestor(t, r.start[1], r.end[1])

\* steps 7-8: the first child of the common ancestor that is partially
\* contained, Null when there is none or the start node is an inclusive
\* ancestor of the end node
firstPartiallyContainedChildOf(t, r) ==
  LET cs == t.childNodes[commonAncestorOf(t, r)]
      hits == {i \in 1..Len(cs) : isPartiallyContained(t, cs[i], r)}
  IN IF isAncestorOf(t, r.end[1], r.start[1], TRUE) \/ hits = {} THEN Null
     ELSE cs[CHOOSE i \in hits : \A j \in hits : i <= j]

\* steps 9-10: the loop runs from the last child down to the second one
lastPartiallyContainedChildOf(t, r) ==
  LET cs == t.childNodes[commonAncestorOf(t, r)]
      hits == {i \in 2..Len(cs) : isPartiallyContained(t, cs[i], r)}
  IN IF isAncestorOf(t, r.start[1], r.end[1], TRUE) \/ hits = {} THEN Null
     ELSE cs[CHOOSE i \in hits : \A j \in hits : i >= j]

\* mutant: a document type is not taken for a contained child
containedChildrenOf_skipsDoctype(t, r) ==
  SelectSeq(t.childNodes[commonAncestorOf(t, r)],
            LAMBDA c : isContained(t, c, r) /\ ~isDocumentTypeNode(t, c))

\* step 11: the children of the common ancestor contained in the range
containedChildrenOf(t, r) ==
  SelectSeq(t.childNodes[commonAncestorOf(t, r)],
            LAMBDA c : isContained(t, c, r))

\* step 14.2 of extract: the ancestor test is made without the self flag
RECURSIVE referenceNodeOf(_, _, _)
referenceNodeOf(t, referenceNode, originalEndNode) ==
  IF /\ t.parent[referenceNode] # Null
     /\ ~isAncestorOf(t, originalEndNode, t.parent[referenceNode], FALSE)
    THEN referenceNodeOf(t, t.parent[referenceNode], originalEndNode)
    ELSE referenceNode

\* steps 13-14 of extract: the point the range collapses to
newPointOf(t, r) ==
  IF isAncestorOf(t, r.end[1], r.start[1], TRUE) THEN r.start
  ELSE LET referenceNode == referenceNodeOf(t, r.start[1], r.end[1])
       IN <<t.parent[referenceNode], 1 + index(t, referenceNode)>>

\* the clone wc.ret gets count characters of node from offset and is
\* appended to fragment; with splice the characters leave the source node
cloneCharacterDataInto(wc, fragment, node, offset, count, splice) ==
  IF wc.thrown # "none" THEN wc
  ELSE IF offset > Len(wc.dom.data[node]) THEN throw(wc, "IndexSizeError")
  ELSE IF splice
    THEN characterData_replaceData(
           appendChild(
             [wc EXCEPT !.dom.data[wc.ret] =
                characterData_substringData(wc.dom, node, offset, count)],
             fragment, wc.ret),
           node, offset, count, <<>>)
  ELSE appendChild(
         [wc EXCEPT !.dom.data[wc.ret] =
            characterData_substringData(wc.dom, node, offset, count)],
         fragment, wc.ret)

\* mutant: the characters leave the source node in every case
cloneCharacterData_alwaysSplices(w, fragment, node, offset, count, splice) ==
  IF w.thrown # "none" THEN w
  ELSE cloneCharacterDataInto(node_clone(w, node), fragment, node, offset,
                              count, TRUE)

\* mutant: the characters never leave the source node
cloneCharacterData_neverSplices(w, fragment, node, offset, count, splice) ==
  IF w.thrown # "none" THEN w
  ELSE cloneCharacterDataInto(node_clone(w, node), fragment, node, offset,
                              count, FALSE)

\* a clone of a character data node holding count characters from offset is
\* appended to fragment; extract (splice) also takes the characters out of
\* the source node, cloneTheContents does not
cloneCharacterData(w, fragment, node, offset, count, splice) ==
  IF w.thrown # "none" THEN w
  ELSE cloneCharacterDataInto(node_clone(w, node), fragment, node, offset,
                              count, splice)

RECURSIVE appendAll(_, _, _)
appendAll(w, parent, nodes) ==
  IF w.thrown # "none" \/ nodes = <<>> THEN w
  ELSE appendAll(appendChild(w, parent, Head(nodes)), parent, Tail(nodes))

\* the subfragment ws.ret is appended to clone
appendSubfragment(ws, clone) ==
  IF ws.thrown # "none" THEN ws ELSE appendChild(ws, clone, ws.ret)

\* the call returns fragment unless it has thrown
returning(w, fragment) ==
  IF w.thrown # "none" THEN w ELSE [w EXCEPT !.ret = fragment]

\* extract on the range r of the tree w.dom.  live tells whether r is the
\* live range of the model (w.range) or a subrange made by the algorithm;
\* indexThrows is the outcome of taking the index of a node without a parent
\* in step 14.3.
RECURSIVE extract(_, _, _, _)

\* step 16 of extract: the clone wc.ret of the original start node is
\* appended to fragment and receives what extract returns for the subrange
\* from the start to the end of the first partially contained child
extractFirstInto(wc, fragment, child, t, r, indexThrows) ==
  IF wc.thrown # "none" THEN wc
  ELSE appendSubfragment(
         extract(appendChild(wc, fragment, wc.ret),
                 [start |-> r.start,
                  end |-> <<child, nodeLength(t, child)>>],
                 FALSE, indexThrows),
         wc.ret)

\* steps 15-16 of extract; t is the tree the call started from
extractFirst(w, fragment, t, r, indexThrows) ==
  IF w.thrown # "none" \/ firstPartiallyContainedChildOf(t, r) = Null THEN w
  ELSE IF isCharacterDataNode(t, firstPartiallyContainedChildOf(t, r))
    THEN cloneCharacterData(w, fragment, r.start[1], r.start[2],
                            nodeLength(t, r.start[1]) - r.start[2], TRUE)
  ELSE extractFirstInto(node_clone(w, r.start[1]), fragment,
                        firstPartiallyContainedChildOf(t, r), t, r,
                        indexThrows)

\* step 19 of extract: the clone wc.ret of the last partially contained
\* child is appended to fragment and receives what extract returns for the
\* subrange from the start of that child to the end
extractLastInto(wc, fragment, child, r, indexThrows) ==
  IF wc.thrown # "none" THEN wc
  ELSE appendSubfragment(
         extract(appendChild(wc, fragment, wc.ret),
                 [start |-> <<child, 0>>, end |-> r.end],
                 FALSE, indexThrows),
         wc.ret)

\* steps 18-19 of extract
extractLast(w, fragment, t, r, indexThrows) ==
  IF w.thrown # "none" \/ lastPartiallyContainedChildOf(t, r) = Null THEN w
  ELSE IF isCharacterDataNode(t, lastPartiallyContainedChildOf(t, r))
    THEN cloneCharacterData(w, fragment, r.end[1], 0, r.end[2], TRUE)
  ELSE extractLastInto(node_clone(w, lastPartiallyContainedChildOf(t, r)),
                       fragment, lastPartiallyContainedChildOf(t, r), r,
                       indexThrows)

\* step 20 of extract: the range collapses to the new point
extractReturn(w, fragment, newPoint, live) ==
  IF w.thrown # "none" THEN w
  ELSE IF live
    THEN [w EXCEPT !.range = [start |-> newPoint, end |-> newPoint],
                   !.ret = fragment]
  ELSE [w EXCEPT !.ret = fragment]

\* steps 2-21 of extract with the new fragment wF.ret
extractInto(wF, t, r, live, indexThrows) ==
  IF wF.thrown # "none" THEN wF
  ELSE IF collapsed(r) THEN wF
  ELSE IF r.start[1] = r.end[1] /\ isCharacterDataNode(t, r.start[1])
    THEN returning(
           cloneCharacterData(wF, wF.ret, r.start[1], r.start[2],
                              r.end[2] - r.start[2], TRUE),
           wF.ret)
  ELSE IF commonAncestorOf(t, r) = Null THEN throw(wF, "Error")
  ELSE IF \E i \in 1..Len(containedChildrenOf(t, r)) :
             isDocumentTypeNode(t, containedChildrenOf(t, r)[i])
    THEN throw(wF, "HierarchyRequestError")
  ELSE IF newPointOf(t, r)[1] = Null /\ indexThrows
    THEN throw(wF, "TypeError")
  ELSE extractReturn(
         extractLast(
           appendAll(extractFirst(wF, wF.ret, t, r, indexThrows),
                     wF.ret, containedChildrenOf(t, r)),
           wF.ret, t, r, indexThrows),
         wF.ret, newPointOf(t, r), live)

extract(w, r, live, indexThrows) ==
  IF w.thrown # "none" THEN w
  ELSE extractInto(create_documentFragment(w), w.dom, r, live, indexThrows)

\* step 15 of cloneTheContents: the clone of a contained child is made
\* without its children
RECURSIVE appendClones(_, _, _)
appendClones(w, parent, nodes) ==
  IF w.thrown # "none" \/ nodes = <<>> THEN w
  ELSE appendClones(appendSubfragment(node_clone(w, Head(nodes)), parent),
                    parent, Tail(nodes))

RECURSIVE cloneTheContents(_, _, _)

\* step 14 of cloneTheContents
cloneFirstInto(wc, fragment, child, t, r, indexThrows) ==
  IF wc.thrown # "none" THEN wc
  ELSE appendSubfragment(
         cloneTheContents(appendChild(wc, fragment, wc.ret),
                          [start |-> r.start,
                           end |-> <<child, nodeLength(t, child)>>],
                          indexThrows),
         wc.ret)

\* steps 13-14 of cloneTheContents
cloneFirst(w, fragment, t, r, indexThrows) ==
  IF w.thrown # "none" \/ firstPartiallyContainedChildOf(t, r) = Null THEN w
  ELSE IF isCharacterDataNode(t, firstPartiallyContainedChildOf(t, r))
    THEN cloneCharacterData(w, fragment, r.start[1], r.start[2],
                            nodeLength(t, r.start[1]) - r.start[2], FALSE)
  ELSE cloneFirstInto(node_clone(w, r.start[1]), fragment,
                      firstPartiallyContainedChildOf(t, r), t, r,
                      indexThrows)

\* steps 16-17 of cloneTheContents: the subrange of the last partially
\* contained child is handed to extract
cloneLast(w, fragment, t, r, indexThrows) ==
  IF w.thrown # "none" \/ lastPartiallyContainedChildOf(t, r) = Null THEN w
  ELSE IF isCharacterDataNode(t, lastPartiallyContainedChildOf(t, r))
    THEN cloneCharacterData(w, fragment, r.end[1], 0, r.end[2], FALSE)
  ELSE extractLastInto(node_clone(w, lastPartiallyContainedChildOf(t, r)),
                       fragment, lastPartiallyContainedChildOf(t, r), r,
                       indexThrows)

\* steps 5-18 of cloneTheContents
cloneGeneral(w4, fragment, t, r, indexThrows) ==
  IF w4.thrown # "none" THEN w4
  ELSE IF commonAncestorOf(t, r) = Null THEN throw(w4, "Error")
  ELSE IF \E i \in 1..Len(containedChildrenOf(t, r)) :
             isDocumentTypeNode(t, containedChildrenOf(t, r)[i])
    THEN throw(w4, "HierarchyRequestError")
  ELSE returning(
         cloneLast(
           appendClones(cloneFirst(w4, fragment, t, r, indexThrows),
                        fragment, containedChildrenOf(t, r)),
           fragment, t, r, indexThrows),
         fragment)

\* steps 2-18 of cloneTheContents with the new fragment wF.ret; the single
\* character data case of step 4 does not return and runs on into the
\* general steps
cloneInto(wF, t, r, indexThrows) ==
  IF wF.thrown # "none" THEN wF
  ELSE IF collapsed(r) THEN wF
  ELSE IF r.start[1] = r.end[1] /\ isCharacterDataNode(t, r.start[1])
    THEN cloneGeneral(
           cloneCharacterData(wF, wF.ret, r.start[1], r.start[2],
                              r.end[2] - r.start[2], FALSE),
           wF.ret, t, r, indexThrows)
  ELSE cloneGeneral(wF, wF.ret, t, r, indexThrows)

cloneTheContents(w, r, indexThrows) ==
  IF w.thrown # "none" THEN w
  ELSE cloneInto(create_documentFragment(w), w.dom, r, indexThrows)

\* steps 2-4 of insert: the start node when it is a text node, else the
\* child of the start node at the start offset, Null when there is none
insertReferenceOf(t, r) ==
  IF isTextNode(t, r.start[1]) THEN r.start[1]
  ELSE IF r.start[2] + 1 <= Len(t.childNodes[r.start[1]])
    THEN t.childNodes[r.start[1]][r.start[2] + 1]
  ELSE Null

\* step 5 of insert
insertParentOf(t, r) ==
  IF insertReferenceOf(t, r) = Null THEN r.start[1]
  ELSE t.parent[insertReferenceOf(t, r)]

\* steps 10-11 of insert, taken after node has left its parent
insertNewOffset(t, node, parent, referenceNode) ==
  (IF referenceNode = Null THEN nodeLength(t, parent)
   ELSE index(t, referenceNode))
  + (IF isDocumentFragmentNode(t, node) THEN nodeLength(t, node) ELSE 1)

\* mutant: the end of the range is never moved
insertReturn_keepsEnd(w12, parent, newOffset) ==
  IF w12.thrown # "none" THEN w12 ELSE [w12 EXCEPT !.ret = Null]

\* step 13 of insert: the end of a collapsed range moves behind the content
insertReturn(w12, parent, newOffset) ==
  IF w12.thrown # "none" THEN w12
  ELSE IF collapsed(w12.range)
    THEN [w12 EXCEPT !.range.end = <<parent, newOffset>>, !.ret = Null]
  ELSE [w12 EXCEPT !.ret = Null]

\* steps 10-13 of insert
insertAt(w9, node, parent, referenceNode) ==
  insertReturn(mutation_preInsert(w9, node, parent, referenceNode), parent,
               insertNewOffset(w9.dom, node, parent, referenceNode))

\* steps 8-9 of insert
insertDetached(w7, node, parent, referenceNode) ==
  IF w7.thrown # "none" THEN w7
  ELSE insertAt(
         IF w7.dom.parent[node] # Null THEN mutation_remove(w7, node) ELSE w7,
         node, parent,
         IF node = referenceNode THEN nextSibling(w7.dom, node)
         ELSE referenceNode)

\* step 7 of insert: ws is the call after a text start node has been split
insertSplit(ws, node, parent) == insertDetached(ws, node, parent, ws.ret)

\* steps 2-13 of insert
insertChecked(w, node) ==
  IF insertParentOf(w.dom, w.range) = Null THEN throw(w, "Error")
  ELSE IF ensurePreInsertionValidity(w.dom, node,
            insertParentOf(w.dom, w.range),
            insertReferenceOf(w.dom, w.range)) # "none"
    THEN throw(w, ensurePreInsertionValidity(w.dom, node,
                    insertParentOf(w.dom, w.range),
                    insertReferenceOf(w.dom, w.range)))
  ELSE IF isTextNode(w.dom, w.range.start[1])
    THEN insertSplit(text_split(w, w.range.start[1], w.range.start[2]),
                     node, insertParentOf(w.dom, w.range))
  ELSE insertDetached(w, node, insertParentOf(w.dom, w.range),
                      insertReferenceOf(w.dom, w.range))

\* mutant: the start node is not looked at
insert_anyStartNode(w, node) == insertChecked(w, node)

\* insert node at the start of the live range
insert(w, node) ==
  IF \/ isProcessingInstructionNode(w.dom, w.range.start[1])
     \/ isCommentNode(w.dom, w.range.start[1])
     \/ (isTextNode(w.dom, w.range.start[1])
         /\ w.dom.parent[w.range.start[1]] = Null)
     \/ w.range.start[1] = node
    THEN throw(w, "HierarchyRequestError")
  ELSE insertChecked(w, node)


\* ----------------------------------------------------------------- actions
\* The caller keeps the fragment a call returned until its next call
\* returns; nodes of other fragments that the live range does not reach are
\* unreachable and leave the arena.
release(w) ==
  LET t == w.dom
      keep == {w.ret} \cup
              {rootNode(t, bp[1]) : bp \in {b \in {w.range.start, w.range.end} :
                                               b[1] # Null}}
      dead == {n \in Nodes : /\ t.nodeType[n] # "free"
                              /\ isDocumentFragmentNode(t, rootNode(t, n))
                              /\ rootNode(t, n) \notin keep}
  IN [nodeType |-> [n \in Nodes |-> IF n \in dead THEN "free"
                                     ELSE t.nodeType[n]],
      localName |-> [n \in Nodes |-> IF n \in dead THEN ""
                                      ELSE t.localName[n]],
      parent |-> [n \in Nodes |-> IF n \in dead THEN Null ELSE t.parent[n]],
      childNodes |-> [n \in Nodes |-> IF n \in dead THEN <<>>
                                       ELSE t.childNodes[n]],
      data |-> [n \in Nodes |-> IF n \in dead THEN <<>> ELSE t.data[n]]]

Calling == [dom |-> dom, range |-> range, thrown |-> "none", ret |-> Null]

\* a call is made on a range whose nodes exist, and has room for its nodes
Returns(op, node, offset, original, w) ==
  /\ steps < MaxSteps
  /\ range.start[1] # Null /\ range.end[1] # Null
  /\ w.thrown # "OutOfNodes"
  /\ dom' = release(w)
  /\ range' = w.range
  /\ result' = [op |-> op, node |-> node, offset |-> offset,
                thrown |-> w.thrown, ret |-> w.ret, original |-> original]
  /\ steps' = steps + 1
  /\ UNCHANGED <<walker, attributes, rangeList, queue>>

\* what the boundary point comparison may yield for a point of node and a
\* point of the live range
CrossOutcomes(node, bp) ==
  IF bp[1] # Null /\ rootNode(dom, node) = rootNode(dom, bp[1])
    THEN {"Before"}
    ELSE Positions

SetStart ==
  \E node \in Allocated, offset \in 0..MaxOffset :
    \E cross \in CrossOutcomes(node, range.end) :
    Returns("setStart", node, offset, <<>>,
            setTheStart(Calling, node, offset, cross))

SetEnd ==
  \E node \in Allocated, offset \in 0..MaxOffset :
    \E cross \in CrossOutcomes(node, range.start) :
    Returns("setEnd", node, offset, <<>>,
            setTheEnd(Calling, node, offset, cross))

Select ==
  \E node \in Allocated :
    Returns("select", node, 0, <<>>, select(Calling, node))

Extract ==
  \E indexThrows \in BOOLEAN :
    Returns("extract", Null, 0, <<range.start, range.end>>,
            extract(Calling, range, TRUE, indexThrows))

CloneContents ==
  \E indexThrows \in BOOLEAN :
    Returns("cloneContents", Null, 0, <<range.start, range.end>>,
            cloneTheContents(Calling, range, indexThrows))

Insert ==
  \E node \in Allocated :
    Returns("insert", node, 0, <<range.start, range.end>>,
            insert(Calling, node))

Next ==
  \/ SetStart
  \/ SetEnd
  \/ Select
  \/ Extract
  \/ CloneContents
  \/ Insert

Spec == Init /\ [][Next]_vars

\* the live range never holds boundary points of two trees
RangeInOneTree ==
  range.start[1] # Null /\ range.end[1] # Null =>
    rootNode(dom, range.start[1]) = rootNode(dom, range.end[1])

\* ------------------------------------------------------------ tree walker
\* <r><a><c><e/></c><d/></a><b/></r>
Forest3 ==
  [nodeType |-> [n \in Nodes |-> IF n \in 1..6 THEN "element" ELSE "free"],
   localName |-> [n \in Nodes |->
      IF n = 1 THEN "r" ELSE IF n = 2 THEN "a" ELSE IF n = 3 THEN "b"
      ELSE IF n = 4 THEN "c" ELSE IF n = 5 THEN "d"
      ELSE IF n = 6 THEN "e" ELSE ""],
   parent |-> [n \in Nodes |->
      IF n \in {2, 3} THEN 1 ELSE IF n \in {4, 5} THEN 2
      ELSE IF n = 6 THEN 4 ELSE Null],
   childNodes |-> [n \in Nodes |->
      IF n = 1 THEN <<2, 3>> ELSE IF n = 2 THEN <<4, 5>>
      ELSE IF n = 4 THEN <<6>> ELSE <<>>],
   data |-> [n \in Nodes |-> <<>>]]

\* a tree that is its root alone
Forest4 ==
  [nodeType |-> [n \in Nodes |-> IF n = 1 THEN "element" ELSE "free"],
   localName |-> [n \in Nodes |-> IF n = 1 THEN "r" ELSE ""],
   parent |-> [n \in Nodes |-> Null],
   childNodes |-> [n \in Nodes |-> <<>>],
   data |-> [n \in Nodes |-> <<>>]]

FilterResults == {"Accept", "Reject", "Skip"}

firstChild(t, n) ==
  IF t.childNodes[n] = <<>> THEN Null ELSE t.childNodes[n][1]

lastChild(t, n) ==
  IF t.childNodes[n] = <<>> THEN Null
  ELSE t.childNodes[n][Len(t.childNodes[n])]

previousSibling(t, n) ==
  IF t.parent[n] = Null \/ index(t, n) = 0 THEN Null
  ELSE t.childNodes[t.parent[n]][index(t, n)]

\* the child a walk enters a node by, and the sibling it goes on with
childOf(t, n, forward) ==
  IF forward THEN firstChild(t, n) ELSE lastChild(t, n)

siblingOf(t, n, forward) ==
  IF forward THEN nextSibling(t, n) ELSE previousSibling(t, n)

\* the filter of the walker is asked about node
filter(wk, node) == wk.filter[node]

\* the call returns n; an accepted node has become the current node before
returnNode(wk, n) ==
  [wk EXCEPT !.pc = "idle", !.ret = n, !.node = Null, !.sibling = Null]

\* mutant: the walk starts at the first child in both directions
traverseChildren_fromFirstChild(t, wk, first) ==
  [wk EXCEPT !.pc = "children", !.op = "traverseChildren",
             !.forward = first, !.node = firstChild(t, wk.current),
             !.sibling = Null, !.filtered = {}, !.ret = Null]

\* traverseChildren, line 27: the walk starts at the first or last child
traverseChildren(t, wk, first) ==
  [wk EXCEPT !.pc = "children", !.op = "traverseChildren",
             !.forward = first, !.node = childOf(t, wk.current, first),
             !.sibling = Null, !.filtered = {}, !.ret = Null]

\* mutant: a skipped node without children is visited again
childrenVisit_skipStays(t, wk) ==
  IF wk.node = Null THEN returnNode(wk, Null)
  ELSE IF filter(wk, wk.node) = "Accept"
    THEN returnNode([wk EXCEPT !.current = wk.node,
                               !.filtered = @ \cup {wk.node}], wk.node)
  ELSE IF filter(wk, wk.node) = "Skip"
    THEN [wk EXCEPT !.filtered = @ \cup {wk.node},
                    !.node = IF childOf(t, wk.node, wk.forward) # Null
                               THEN childOf(t, wk.node, wk.forward)
                               ELSE wk.node]
  ELSE [wk EXCEPT !.pc = "childrenUp", !.filtered = @ \cup {wk.node}]

\* mutant: a rejected node is treated as a skipped one
childrenVisit_entersRejected(t, wk) ==
  IF wk.node = Null THEN returnNode(wk, Null)
  ELSE IF filter(wk, wk.node) = "Accept"
    THEN returnNode([wk EXCEPT !.current = wk.node,
                               !.filtered = @ \cup {wk.node}], wk.node)
  ELSE IF childOf(t, wk.node, wk.forward) # Null
    THEN [wk EXCEPT !.filtered = @ \cup {wk.node},
                    !.node = childOf(t, wk.node, wk.forward)]
  ELSE [wk EXCEPT !.pc = "childrenUp", !.filtered = @ \cup {wk.node}]

\* traverseChildren, one turn of the loop of line 28 up to line 53
childrenVisit(t, wk) ==
  IF wk.node = Null THEN returnNode(wk, Null)
  ELSE IF filter(wk, wk.node) = "Accept"
    THEN returnNode([wk EXCEPT !.current = wk.node,
                               !.filtered = @ \cup {wk.node}], wk.node)
  ELSE IF /\ filter(wk, wk.node) = "Skip"
          /\ childOf(t, wk.node, wk.forward) # Null
    THEN [wk EXCEPT !.filtered = @ \cup {wk.node},
                    !.node = childOf(t, wk.node, wk.forward)]
  ELSE [wk EXCEPT !.pc = "childrenUp", !.filtered = @ \cup {wk.node}]

\* mutant: the climb does not stop below the current node
childrenUp_passesCurrent(t, wk) ==
  IF siblingOf(t, wk.node, wk.forward) # Null
    THEN [wk EXCEPT !.pc = "children",
                    !.node = siblingOf(t, wk.node, wk.forward)]
  ELSE IF t.parent[wk.node] = Null
    THEN returnNode(wk, Null)
  ELSE [wk EXCEPT !.node = t.parent[wk.node]]

\* traverseChildren, one turn of the loop of line 58
childrenUp(t, wk) ==
  IF siblingOf(t, wk.node, wk.forward) # Null
    THEN [wk EXCEPT !.pc = "children",
                    !.node = siblingOf(t, wk.node, wk.forward)]
  ELSE IF \/ t.parent[wk.node] = Null
          \/ t.parent[wk.node] = wk.root
          \/ t.parent[wk.node] = wk.current
    THEN returnNode(wk, Null)
  ELSE [wk EXCEPT !.node = t.parent[wk.node]]

\* mutant: the walk starts at the root as at any other node
traverseSiblings_fromRoot(t, wk, next) ==
  [wk EXCEPT !.pc = "siblings", !.op = "traverseSiblings",
             !.forward = next, !.node = wk.current,
             !.sibling = siblingOf(t, wk.current, next),
             !.filtered = {}, !.ret = Null]

\* traverseSiblings, lines 99-108: nothing to do at the root, else the walk
\* starts at the next or previous sibling of the current node
traverseSiblings(t, wk, next) ==
  IF wk.current = wk.root
    THEN returnNode([wk EXCEPT !.op = "traverseSiblings", !.forward = next,
                               !.filtered = {}], Null)
  ELSE [wk EXCEPT !.pc = "siblings", !.op = "traverseSiblings",
                  !.forward = next, !.node = wk.current,
                  !.sibling = siblingOf(t, wk.current, next),
                  !.filtered = {}, !.ret = Null]

\* traverseSiblings, one turn of the loop of line 110
siblingsVisit(t, wk) ==
  IF filter(wk, wk.sibling) = "Accept"
    THEN returnNode([wk EXCEPT !.current = wk.sibling,
                               !.filtered = @ \cup {wk.sibling}], wk.sibling)
  ELSE [wk EXCEPT
         !.node = wk.sibling,
         !.filtered = @ \cup {wk.sibling},
         !.sibling =
            IF \/ filter(wk, wk.sibling) = "Reject"
               \/ childOf(t, wk.sibling, wk.forward) = Null
              THEN siblingOf(t, wk.sibling, wk.forward)
              ELSE childOf(t, wk.sibling, wk.forward)]

\* mutant: the climb does not ask the filter about the parent
siblingsClimb_passesParent(t, wk) ==
  IF t.parent[wk.node] = Null THEN returnNode(wk, Null)
  ELSE IF t.parent[wk.node] = wk.root THEN returnNode(wk, Null)
  ELSE [wk EXCEPT !.node = t.parent[wk.node],
                  !.sibling = siblingOf(t, t.parent[wk.node], wk.forward)]

\* traverseSiblings, lines 141-155 and the next turn's line 108: the walk
\* climbs to the parent when the siblings are used up
siblingsClimb(t, wk) ==
  IF t.parent[wk.node] = Null THEN returnNode(wk, Null)
  ELSE IF t.parent[wk.node] = wk.root THEN returnNode(wk, Null)
  ELSE IF filter(wk, t.parent[wk.node]) = "Accept"
    THEN returnNode([wk EXCEPT !.filtered = @ \cup {t.parent[wk.node]}],
                    Null)
  ELSE [wk EXCEPT !.node = t.parent[wk.node],
                  !.filtered = @ \cup {t.parent[wk.node]},
                  !.sibling = siblingOf(t, t.parent[wk.node], wk.forward)]

\* a walker over a subtree of the tree, its current node inside the subtree
WalkerInit ==
  /\ dom \in {Forest3, Forest4}
  /\ range = [start |-> <<1, 0>>, end |-> <<1, 0>>]
  /\ result = NoResult
  /\ steps = 0
  /\ attributes = NoAttributes
  /\ rangeList = <<>>
  /\ queue = <<>>
  /\ \E top \in Allocated, current \in Allocated,
        f \in [Allocated -> FilterResults] :
       /\ isAncestorOf(dom, current, top, TRUE)
       /\ walker = [NoWalker EXCEPT !.root = top, !.current = current,
                                    !.filter = f]

WalkerMoves(wk) ==
  /\ walker' = wk
  /\ UNCHANGED <<dom, range, result, steps, attributes, rangeList, queue>>

TraverseChildren ==
  /\ walker.pc = "idle"
  /\ \E first \in BOOLEAN : WalkerMoves(traverseChildren(dom, walker, first))

ChildrenVisit ==
  /\ walker.pc = "children"
  /\ WalkerMoves(childrenVisit(dom, walker))

ChildrenUp ==
  /\ walker.pc = "childrenUp"
  /\ WalkerMoves(childrenUp(dom, walker))

TraverseSiblings ==
  /\ walker.pc = "idle"
  /\ \E next \in BOOLEAN : WalkerMoves(traverseSiblings(dom, walker, next))

SiblingsVisit ==
  /\ walker.pc = "siblings"
  /\ walker.sibling # Null
  /\ WalkerMoves(siblingsVisit(dom, walker))

SiblingsClimb ==
  /\ walker.pc = "siblings"
  /\ walker.sibling = Null
  /\ WalkerMoves(siblingsClimb(dom, walker))

\* the steps inside a call
WalkerRuns ==
  \/ ChildrenVisit
  \/ ChildrenUp
  \/ SiblingsVisit
  \/ SiblingsClimb

WalkerNext ==
  \/ TraverseChildren
  \/ TraverseSiblings
  \/ WalkerRuns

WalkerSpec == WalkerInit /\ [][WalkerNext]_vars

\* a call that has started runs on: the loops are plain sequential code
WalkerLive == WalkerSpec /\ WF_vars(WalkerRuns)

\* --------------------------------------------------------------- attributes
\* The attribute algorithms work on a record a: the attribute lists a.list
\* of the elements, the attribute nodes a.attr, the mutation records queued
\* and the change hooks run by the call so far a.log (each with what it saw
\* of the lists and the attributes when it happened), the error thrown
\* a.thrown and the value returned a.ret; a.queue is the record queue of an
\* observer of the attributes of all elements, which outlives the call.
Elements == {1, 2}
Attrs == 1..MaxAttrs

\* the null of a string-valued field or argument
NullString == "null"

LocalNames == {"a", "A"}
Namespaces == {NullString, "", "n"}
Values == {"u", "v"}

\* element 1 is an HTML element of an HTML document, element 2 is not
isHTML(element) == element = 1

toLowerCase(name) ==
  IF name = "A" THEN "a" ELSE IF name = "AfterEnd" THEN "afterend" ELSE name

NoAttr ==
  [made |-> FALSE, localName |-> "", namespace |-> NullString,
   value |-> "", element |-> Null]

queueAttributeMutationRecord(a, by, element, localName, namespace, oldValue) ==
  [a EXCEPT !.log = Append(@,
     [kind |-> "record", by |-> by, element |-> element,
      localName |-> localName, namespace |-> namespace,
      old |-> oldValue, new |-> NullString,
      seen |-> [list |-> a.list, attr |-> a.attr]]),
            !.queue = Append(@,
     [target |-> element, attributeName |-> localName,
      attributeNamespace |-> namespace, oldValue |-> oldValue])]

runAttributeChangeSteps(a, by, element, localName, oldValue, value, namespace) ==
  [a EXCEPT !.log = Append(@,
     [kind |-> "hook", by |-> by, element |-> element,
      localName |-> localName, namespace |-> namespace,
      old |-> oldValue, new |-> value,
      seen |-> [list |-> a.list, attr |-> a.attr]])]

list_append(s, x) == Append(s, x)

list_remove(s, x) == SelectSeq(s, LAMBDA y : y # x)

list_replace(s, x, y) == [i \in 1..Len(s) |-> IF s[i] = x THEN y ELSE s[i]]

\* the smallest attribute node not made yet, Null when the arena is full
firstFreeAttr(a) ==
  IF \A x \in Attrs : a.attr[x].made THEN Null
  ELSE CHOOSE x \in Attrs :
         /\ ~a.attr[x].made
         /\ \A y \in Attrs : ~a.attr[y].made => x <= y

create_attr(a, localName) ==
  IF firstFreeAttr(a) = Null THEN [a EXCEPT !.thrown = "OutOfAttrs"]
  ELSE [a EXCEPT !.attr[firstFreeAttr(a)] =
                    [NoAttr EXCEPT !.made = TRUE, !.localName = localName],
                 !.ret = firstFreeAttr(a)]

has(a, attribute, element) ==
  \E i \in 1..Len(a.list[element]) : a.list[element][i] = attribute

\* steps 3-4 of change
changeRun(q, attribute, element, value) ==
  [runAttributeChangeSteps(q, "change", element,
     q.attr[attribute].localName, q.attr[attribute].value, value,
     q.attr[attribute].namespace)
   EXCEPT !.attr[attribute].value = value]

\* mutant: the value is stored before the record is queued
change_storesFirst(a, attribute, element, value) ==
  changeRun(
    queueAttributeMutationRecord(
      [a EXCEPT !.attr[attribute].value = value], "change", element,
      a.attr[attribute].localName, a.attr[attribute].namespace, value),
    attribute, element, value)

change(a, attribute, element, value) ==
  changeRun(
    queueAttributeMutationRecord(a, "change", element,
      a.attr[attribute].localName, a.attr[attribute].namespace,
      a.attr[attribute].value),
    attribute, element, value)

\* steps 3-5 of append
appendRun(q, attribute, element) ==
  [runAttributeChangeSteps(q, "append", element,
     q.attr[attribute].localName, NullString, q.attr[attribute].value,
     q.attr[attribute].namespace)
   EXCEPT !.list[element] = list_append(@, attribute),
          !.attr[attribute].element = element]

\* mutant: the attribute joins the list before the record is queued
append_listFirst(a, attribute, element) ==
   runAttributeChangeSteps(
     queueAttributeMutationRecord(
       [a EXCEPT !.list[element] = list_append(@, attribute),
                 !.attr[attribute].element = element],
       "append", element, a.attr[attribute].localName,
       a.attr[attribute].namespace, NullString),
     "append", element, a.attr[attribute].localName, NullString,
     a.attr[attribute].value, a.attr[attribute].namespace)

append(a, attribute, element) ==
  appendRun(
    queueAttributeMutationRecord(a, "append", element,
      a.attr[attribute].localName, a.attr[attribute].namespace, NullString),
    attribute, element)

\* steps 3-5 of remove
removeRun(q, attribute, element) ==
  [runAttributeChangeSteps(q, "remove", element,
     q.attr[attribute].localName, q.attr[attribute].value, NullString,
     q.attr[attribute].namespace)
   EXCEPT !.list[element] = list_remove(@, attribute),
          !.attr[attribute].element = Null]

remove(a, attribute, element) ==
  removeRun(
    queueAttributeMutationRecord(a, "remove", element,
      a.attr[attribute].localName, a.attr[attribute].namespace,
      a.attr[attribute].value),
    attribute, element)

\* steps 3-6 of replace
replaceRun(q, oldAttr, newAttr, element) ==
  [runAttributeChangeSteps(q, "replace", element,
     q.attr[oldAttr].localName, q.attr[oldAttr].value,
     q.attr[newAttr].value, q.attr[oldAttr].namespace)
   EXCEPT !.list[element] = list_replace(@, oldAttr, newAttr),
          !.attr = [x \in Attrs |->
             IF x = newAttr THEN [@[x] EXCEPT !.element = element]
             ELSE IF x = oldAttr THEN [@[x] EXCEPT !.element = Null]
             ELSE @[x]]]

replace(a, oldAttr, newAttr, element) ==
  replaceRun(
    queueAttributeMutationRecord(a, "replace", element,
      a.attr[oldAttr].localName, a.attr[oldAttr].namespace,
      a.attr[oldAttr].value),
    oldAttr, newAttr, element)

\* the first member of the attribute list s that is in matching, Null if
\* there is none
RECURSIVE firstAttr(_, _)
firstAttr(s, matching) ==
  IF s = <<>> THEN Null
  ELSE IF Head(s) \in matching THEN Head(s)
  ELSE firstAttr(Tail(s), matching)

\* callers pass no namespace prefix, so that the qualified name of an
\* attribute is its local name
getAnAttributeByName(a, qualifiedName, element) ==
  firstAttr(a.list[element],
    {x \in Attrs : a.attr[x].localName =
                     IF isHTML(element) THEN toLowerCase(qualifiedName)
                     ELSE qualifiedName})

\* namespace || null
orNull(namespace) ==
  IF namespace = "" \/ namespace = NullString THEN NullString ELSE namespace

\* namespace || ''
orEmpty(namespace) ==
  IF namespace = "" \/ namespace = NullString THEN "" ELSE namespace

getAnAttributeByNamespaceAndLocalName(a, namespace, localName, element) ==
  firstAttr(a.list[element],
    {x \in Attrs : /\ a.attr[x].namespace = orNull(namespace)
                   /\ a.attr[x].localName = localName})

getAnAttributeValue(a, element, localName, namespace) ==
  IF getAnAttributeByNamespaceAndLocalName(a, namespace, localName, element)
       = Null
    THEN ""
  ELSE a.attr[getAnAttributeByNamespaceAndLocalName(a, namespace, localName,
                                                    element)].value

\* steps 3-6 of setAnAttribute
setAnAttributeOver(a, oldAttr, attr, element) ==
  IF oldAttr = attr THEN [a EXCEPT !.ret = attr]
  ELSE IF oldAttr # Null
    THEN [replace(a, oldAttr, attr, element) EXCEPT !.ret = oldAttr]
  ELSE [append(a, attr, element) EXCEPT !.ret = oldAttr]

\* mutant: an attribute of another element is taken over
setAnAttribute_takesOver(a, attr, element) ==
  setAnAttributeOver(a,
    getAnAttributeByNamespaceAndLocalName(a,
      orEmpty(a.attr[attr].namespace), a.attr[attr].localName, element),
    attr, element)

setAnAttribute(a, attr, element) ==
  IF a.attr[attr].element # Null /\ a.attr[attr].element # element
    THEN [a EXCEPT !.thrown = "InUseAttributeError"]
  ELSE setAnAttributeOver(a,
         getAnAttributeByNamespaceAndLocalName(a,
           orEmpty(a.attr[attr].namespace), a.attr[attr].localName, element),
         attr, element)

\* step 4 of setAnAttributeValue: c is the call after the attribute c.ret
\* has been created
setAnAttributeValueNew(c, element, value, namespace) ==
  IF c.thrown # "none" THEN c
  ELSE [append([c EXCEPT !.attr[c.ret].namespace = namespace,
                         !.attr[c.ret].value = value],
               c.ret, element)
        EXCEPT !.ret = Null]

setAnAttributeValue(a, element, localName, value, namespace) ==
  IF getAnAttributeByNamespaceAndLocalName(a, orEmpty(namespace), localName,
                                           element) = Null
    THEN setAnAttributeValueNew(create_attr(a, localName), element, value,
                                namespace)
  ELSE change(a,
         getAnAttributeByNamespaceAndLocalName(a, orEmpty(namespace),
                                               localName, element),
         element, value)

\* steps 2-3 of the two removals
removeFound(a, attr, element) ==
  IF attr = Null THEN [a EXCEPT !.ret = Null]
  ELSE [remove(a, attr, element) EXCEPT !.ret = attr]

removeAnAttributeByName(a, qualifiedName, element) ==
  removeFound(a, getAnAttributeByName(a, qualifiedName, element), element)

removeAnAttributeByNamespaceAndLocalName(a, namespace, localName, element) ==
  removeFound(a,
    getAnAttributeByNamespaceAndLocalName(a, namespace, localName, element),
    element)

\* two elements without attributes and two attribute nodes "a" that belong
\* to no element
AttrInit ==
  /\ dom = Forest4
  /\ range = [start |-> <<1, 0>>, end |-> <<1, 0>>]
  /\ result = NoResult
  /\ steps = 0
  /\ walker = NoWalker
  /\ rangeList = <<>>
  /\ queue = <<>>
  /\ attributes =
       [list |-> [e \in Elements |-> <<>>],
        attr |-> [x \in Attrs |->
           IF x = 1 THEN [NoAttr EXCEPT !.made = TRUE, !.localName = "a",
                                        !.value = "u"]
           ELSE IF x = 2 THEN [NoAttr EXCEPT !.made = TRUE,
                                             !.localName = "a",
                                             !.value = "v"]
           ELSE NoAttr],
        queue |-> <<>>,
        log |-> <<>>,
        call |-> [op |-> "none", attr |-> Null, element |-> Null,
                  localName |-> "", namespace |-> NullString, value |-> "",
                  thrown |-> "none", ret |-> Null]]

AttrCalling ==
  [list |-> attributes.list, attr |-> attributes.attr,
   queue |-> attributes.queue, log |-> <<>>, thrown |-> "none", ret |-> Null]

\* a call returns or throws, unless the attribute arena is full
AttrReturns(op, attr, element, localName, namespace, value, a) ==
  /\ steps < MaxCalls
  /\ a.thrown # "OutOfAttrs"
  /\ attributes' =
       [list |-> a.list, attr |-> a.attr, queue |-> a.queue, log |-> a.log,
        call |-> [op |-> op, attr |-> attr, element |-> element,
                  localName |-> localName, namespace |-> namespace,
                  value |-> value, thrown |-> a.thrown, ret |-> a.ret]]
  /\ steps' = steps + 1
  /\ UNCHANGED <<dom, range, result, walker, rangeList, queue>>

SetAnAttribute ==
  \E attr \in {x \in Attrs : attributes.attr[x].made}, element \in Elements :
    AttrReturns("setAnAttribute", attr, element, "", NullString, "",
                setAnAttribute(AttrCalling, attr, element))

SetAnAttributeValue ==
  \E element \in Elements, localName \in LocalNames, value \in Values,
     namespace \in Namespaces :
    AttrReturns("setAnAttributeValue", Null, element, localName, namespace,
                value,
                setAnAttributeValue(AttrCalling, element, localName, value,
                                    namespace))

RemoveAnAttributeByName ==
  \E element \in Elements, qualifiedName \in LocalNames :
    AttrReturns("removeAnAttributeByName", Null, element, qualifiedName,
                NullString, "",
                removeAnAttributeByName(AttrCalling, qualifiedName, element))

RemoveAnAttributeByNamespaceAndLocalName ==
  \E element \in Elements, localName \in LocalNames,
     namespace \in Namespaces :
    AttrReturns("removeAnAttributeByNamespaceAndLocalName", Null, element,
                localName, namespace, "",
                removeAnAttributeByNamespaceAndLocalName(AttrCalling,
                  namespace, localName, element))

AttrNext ==
  \/ SetAnAttribute
  \/ SetAnAttributeValue
  \/ RemoveAnAttributeByName
  \/ RemoveAnAttributeByNamespaceAndLocalName

AttrSpec == AttrInit /\ [][AttrNext]_vars

\* ------------------------------------------------ boundary point comparison
\* Three boundary points of one tree are compared with each other.
PositionInit ==
  /\ dom \in {Forest1, Forest2, Forest3}
  /\ range = [start |-> <<1, 0>>, end |-> <<1, 0>>]
  /\ result = NoResult
  /\ steps = 0
  /\ walker = NoWalker
  /\ attributes = NoAttributes
  /\ rangeList = <<>>
  /\ queue = <<>>

ComparePoints ==
  /\ result.op = "none"
  /\ \E A \in BoundaryPoints(dom), B \in BoundaryPoints(dom),
        C \in BoundaryPoints(dom) :
       /\ rootNode(dom, A[1]) = rootNode(dom, B[1])
       /\ rootNode(dom, A[1]) = rootNode(dom, C[1])
       /\ result' =
            [op |-> "position", node |-> Null, offset |-> 0,
             thrown |-> "none", ret |-> Null, original |-> <<A, B, C>>,
             positions |-> [p \in {A, B, C} \X {A, B, C} |->
                              position(dom, p[1], p[2], "Undefined")]]
  /\ UNCHANGED <<dom, range, steps, walker, attributes, rangeList, queue>>

PositionNext == ComparePoints

PositionSpec == PositionInit /\ [][PositionNext]_vars

\* ------------------------------------------------------- list of live ranges
\* doc._rangeList holds the live ranges of a document, which are numbered.
Ranges == 1..MaxRanges

\* a range joins the list when the document makes it, once
rangeList_add(list, rangeId) ==
  IF \E i \in 1..Len(list) : list[i] = rangeId THEN list
  ELSE Append(list, rangeId)

\* Array.prototype.indexOf: the first index, from 0, at which the item is,
\* -1 when it is nowhere
rangeList_indexOf(list, item) ==
  IF \A i \in 1..Len(list) : list[i] # item THEN -1
  ELSE (CHOOSE i \in 1..Len(list) :
          /\ list[i] = item
          /\ \A j \in 1..Len(list) : list[j] = item => i <= j) - 1

\* Array.prototype.splice(start, deleteCount) without new items
rangeList_splice(list, start, deleteCount) ==
  SubSeq(list, 1, start) \o SubSeq(list, start + deleteCount + 1, Len(list))

\* mutant: splice is called without a count and cuts the list off
removeRange_cutsOff(list, rangeId) ==
  IF rangeList_indexOf(list, rangeId) > -1
    THEN SubSeq(list, 1, rangeList_indexOf(list, rangeId))
  ELSE list

removeRange(list, rangeId) ==
  IF rangeList_indexOf(list, rangeId) > -1
    THEN rangeList_splice(list, rangeList_indexOf(list, rangeId), 1)
  ELSE list

RegistryInit ==
  /\ dom = Forest4
  /\ range = [start |-> <<1, 0>>, end |-> <<1, 0>>]
  /\ result = NoResult
  /\ steps = 0
  /\ walker = NoWalker
  /\ attributes = NoAttributes
  /\ rangeList = <<>>
  /\ queue = <<>>

\* a call on the list returns
RegistryReturns(op, rangeId, list) ==
  /\ rangeList' = list
  /\ result' = [op |-> op, node |-> rangeId, offset |-> 0,
                thrown |-> "none", ret |-> Null, original |-> rangeList]
  /\ UNCHANGED <<dom, range, steps, walker, attributes, queue>>

AddRange ==
  \E rangeId \in Ranges :
    RegistryReturns("addRange", rangeId, rangeList_add(rangeList, rangeId))

RemoveRange ==
  \E rangeId \in Ranges :
    RegistryReturns("removeRange", rangeId, removeRange(rangeList, rangeId))

RegistryNext ==
  \/ AddRange
  \/ RemoveRange

RegistrySpec == RegistryInit /\ [][RegistryNext]_vars

\* ---------------------------------------------------------- insertAdjacent
Wheres ==
  {"beforebegin", "afterbegin", "beforeend", "afterend", "AfterEnd",
   "inside"}

\* mutant: where is compared as it was passed
insertAdjacent_caseSensitive(w, element, where, node) ==
  IF where = "beforebegin"
    THEN IF w.dom.parent[element] = Null THEN [w EXCEPT !.ret = Null]
         ELSE mutation_preInsert(w, node, w.dom.parent[element], element)
  ELSE IF where = "afterbegin"
    THEN mutation_preInsert(w, node, element, firstChild(w.dom, element))
  ELSE IF where = "beforeend"
    THEN mutation_preInsert(w, node, element, Null)
  ELSE IF where = "afterend"
    THEN IF w.dom.parent[element] = Null THEN [w EXCEPT !.ret = Null]
         ELSE mutation_preInsert(w, node, w.dom.parent[element],
                                 nextSibling(w.dom, element))
  ELSE throw(w, "SyntaxError")

insertAdjacent(w, element, where, node) ==
  IF toLowerCase(where) = "beforebegin"
    THEN IF w.dom.parent[element] = Null THEN [w EXCEPT !.ret = Null]
         ELSE mutation_preInsert(w, node, w.dom.parent[element], element)
  ELSE IF toLowerCase(where) = "afterbegin"
    THEN mutation_preInsert(w, node, element, firstChild(w.dom, element))
  ELSE IF toLowerCase(where) = "beforeend"
    THEN mutation_preInsert(w, node, element, Null)
  ELSE IF toLowerCase(where) = "afterend"
    THEN IF w.dom.parent[element] = Null THEN [w EXCEPT !.ret = Null]
         ELSE mutation_preInsert(w, node, w.dom.parent[element],
                                 nextSibling(w.dom, element))
  ELSE throw(w, "SyntaxError")

AdjacentInit ==
  /\ dom \in {Forest1, Forest2}
  /\ range = [start |-> <<1, 0>>, end |-> <<1, 0>>]
  /\ result = NoResult
  /\ steps = 0
  /\ walker = NoWalker
  /\ attributes = NoAttributes
  /\ rangeList = <<>>
  /\ queue = <<>>

InsertAdjacent ==
  \E element \in {n \in Allocated : dom.nodeType[n] = "element"},
     where \in Wheres, node \in Allocated :
    Returns("insertAdjacent", node, 0, <<element, where>>,
            insertAdjacent(Calling, element, where, node))

AdjacentNext == InsertAdjacent

AdjacentSpec == AdjacentInit /\ [][AdjacentNext]_vars

\* ------------------------------------------------------------- infra queue
\* The items of a queue are objects: a value and the number of the enqueue
\* call that put the item in, by which it is told from equal values.
Items == 1..MaxItems

NoItem == <<>>

queue_enqueue(list, item) == Append(list, item)

\* mutant: the item put in last is taken
queue_dequeue_takesLast(list) ==
  IF list = <<>> THEN [list |-> list, ret |-> NoItem]
  ELSE [list |-> SubSeq(list, 1, Len(list) - 1), ret |-> list[Len(list)]]

\* the list and the item that dequeue leaves and returns
queue_dequeue(list) ==
  IF list = <<>> THEN [list |-> list, ret |-> NoItem]
  ELSE [list |-> Tail(list), ret |-> Head(list)]

QueueInit ==
  /\ dom = Forest4
  /\ range = [start |-> <<1, 0>>, end |-> <<1, 0>>]
  /\ result = NoResult
  /\ steps = 0
  /\ walker = NoWalker
  /\ attributes = NoAttributes
  /\ rangeList = <<>>
  /\ queue = <<>>

Enqueue ==
  /\ steps < MaxEnqueues
  /\ \E value \in Items :
       /\ queue' = queue_enqueue(queue, <<value, steps + 1>>)
       /\ result' = [op |-> "enqueue", node |-> Null, offset |-> 0,
                     thrown |-> "none", ret |-> NoItem, original |-> queue]
  /\ steps' = steps + 1
  /\ UNCHANGED <<dom, range, walker, attributes, rangeList>>

Dequeue ==
  /\ queue' = queue_dequeue(queue).list
  /\ result' = [op |-> "dequeue", node |-> Null, offset |-> 0,
                thrown |-> "none", ret |-> queue_dequeue(queue).ret,
                original |-> queue]
  /\ UNCHANGED <<dom, range, steps, walker, attributes, rangeList>>

QueueNext ==
  \/ Enqueue
  \/ Dequeue

QueueSpec == QueueInit /\ [][QueueNext]_vars

\* ------------------------------------------------------- nodes and a range
\* A node is tested against a range of its tree whose start is not after its
\* end, as extract and cloneTheContents test the children of the common
\* ancestor.
Contains ==
  /\ result.op = "none"
  /\ \E node \in Allocated :
       result' =
         [op |-> "contains", node |-> node, offset |-> 0, thrown |-> "none",
          ret |-> Null, original |-> <<range.start, range.end>>,
          isContained |-> isContained(dom, node, range),
          isPartiallyContained |-> isPartiallyContained(dom, node, range)]
  /\ UNCHANGED <<dom, range, steps, walker, attributes, rangeList, queue>>

ContainsNext == Contains

ContainsSpec == Init /\ [][ContainsNext]_vars

\* ------------------------------------------------------------------ claims
\* the call made by the step is named by result'
Called(ops) == result'.op \in ops

Accepted == result'.thrown = "none"

\* every node that was in the arena before the step and is still reachable
\* after it has the same kind, name, parent, children and data
TreeUnchanged ==
  \A n \in Nodes :
    (dom.nodeType[n] # "free" /\ dom'.nodeType[n] # "free") =>
      /\ dom'.nodeType[n] = dom.nodeType[n]
      /\ dom'.localName[n] = dom.localName[n]
      /\ dom'.parent[n] = dom.parent[n]
      /\ dom'.childNodes[n] = dom.childNodes[n]
      /\ dom'.data[n] = dom.data[n]

\* C1: after any sequence of calls the start of the range is Before or
\* Equal to its end, never After it.
C1_StartNotAfterEnd ==
  position(dom, range.start, range.end, "Undefined") \in {"Before", "Equal"}

\* a range over two nodes has been extracted
C1_Witness ==
  /\ result.op = "extract"
  /\ result.thrown = "none"
  /\ result.original[1][1] # result.original[2][1]
  /\ range.start[1] # Null

\* C2: every accepted setStart, setEnd or select leaves the start node and
\* the end node in one tree, and a setStart or setEnd with a node of another
\* tree than the range leaves the range collapsed at (node, offset).
C2_OneTree ==
  [][(Called({"setStart", "setEnd", "select"}) /\ Accepted) =>
       /\ rootNode(dom', range'.start[1]) = rootNode(dom', range'.end[1])
       /\ (/\ Called({"setStart", "setEnd"})
           /\ rootNode(dom, result'.node) # root(dom, range)) =>
             /\ range'.start = <<result'.node, result'.offset>>
             /\ range'.end = <<result'.node, result'.offset>>]_vars

\* the end of the range has been set to a node of another tree
C2_Witness ==
  /\ steps = 1
  /\ result.op = "setEnd"
  /\ result.thrown = "none"
  /\ rootNode(dom, result.node) # 1
  /\ range.start = range.end

\* C3: cloneContents changes neither the source tree nor the range.
C3_CloneLeavesSource ==
  [][Called({"cloneContents"}) => (TreeUnchanged /\ range' = range)]_vars

\* C4: extract on a collapsed range returns a fragment without children and
\* changes neither the tree nor the boundary points of the range.
C4_ExtractCollapsed ==
  [][(Called({"extract"}) /\ range.start = range.end) =>
       /\ Accepted
       /\ dom'.nodeType[result'.ret] = "fragment"
       /\ dom'.childNodes[result'.ret] = <<>>
       /\ TreeUnchanged
       /\ range' = range]_vars

\* extract has returned from a call on a collapsed range
C4_Witness ==
  /\ result.op = "extract"
  /\ result.thrown = "none"
  /\ result.original[1] = result.original[2]

\* the range the step starts from spans children i..j-1 of one container
SpansChildren ==
  /\ range.start[1] = range.end[1]
  /\ range.start[2] < range.end[2]
  /\ ~isCharacterDataNode(dom, range.start[1])

\* extract took the children i..j-1 out of p and returned them in order
ChildrenExtracted ==
  LET p == range.start[1]
      i == range.start[2]
      j == range.end[2]
      cs == dom.childNodes[p]
  IN /\ Accepted
     /\ dom'.nodeType[result'.ret] = "fragment"
     /\ dom'.childNodes[result'.ret] = SubSeq(cs, i + 1, j)
     /\ dom'.childNodes[p] = SubSeq(cs, 1, i) \o SubSeq(cs, j + 1, Len(cs))

\* C5 as stated: for a range (p, i)-(p, j) with i < j on a container p,
\* extract removes exactly the children i..j-1 of p, returns them in their
\* order in a fragment and keeps the other children of p in their order.
C5_ExtractChildren ==
  [][(Called({"extract"}) /\ SpansChildren) => ChildrenExtracted]_vars

\* C5 as amended: the same, provided none of the children i..j-1 is a
\* document type.
C5_ExtractChildrenNoDoctype ==
  [][(/\ Called({"extract"})
      /\ SpansChildren
      /\ \A k \in (range.start[2] + 1)..range.end[2] :
            ~isDocumentTypeNode(dom, dom.childNodes[range.start[1]][k]))
       => ChildrenExtracted]_vars

\* extract has returned the children of a range on one container
C5_Witness ==
  /\ result.op = "extract"
  /\ result.thrown = "none"
  /\ result.original[1][1] = result.original[2][1]
  /\ result.original[1][2] < result.original[2][2]
  /\ ~isCharacterDataNode(dom, result.original[1][1])
  /\ Len(dom.childNodes[result.ret]) =
       result.original[2][2] - result.original[1][2]

\* the range the step starts from lies in one character data node, s < e
SpansCharacters ==
  /\ range.start[1] = range.end[1]
  /\ range.start[2] < range.end[2]
  /\ isCharacterDataNode(dom, range.start[1])

\* the returned fragment holds one clone of the node with the data [s, e)
OneCloneReturned ==
  LET n == range.start[1]
      f == result'.ret
  IN /\ Accepted
     /\ dom'.nodeType[f] = "fragment"
     /\ Len(dom'.childNodes[f]) = 1
     /\ dom'.childNodes[f][1] # n
     /\ dom'.nodeType[dom'.childNodes[f][1]] = dom.nodeType[n]
     /\ dom'.data[dom'.childNodes[f][1]] =
          SubSeq(dom.data[n], range.start[2] + 1, range.end[2])

\* C6: for a range inside one text-like node, s < e, cloneContents returns
\* a fragment with exactly one node, a clone holding the characters [s, e),
\* and the data of the source node is unchanged.
C6_CloneCharacters ==
  [][(Called({"cloneContents"}) /\ SpansCharacters) =>
       /\ OneCloneReturned
       /\ dom'.data[range.start[1]] = dom.data[range.start[1]]]_vars

\* cloneContents has returned from a range inside one text-like node
C6_Witness ==
  /\ result.op = "cloneContents"
  /\ result.thrown = "none"
  /\ result.original[1][1] = result.original[2][1]
  /\ 0 < result.original[1][2]
  /\ result.original[1][2] < result.original[2][2]
  /\ isCharacterDataNode(dom, result.original[1][1])
  /\ Len(dom.childNodes[result.ret]) = 1

\* C7: for a range inside one text-like node, s < e, extract returns a
\* fragment with one clone holding the characters [s, e), the source data
\* becomes data[0, s) followed by data[e, len), and no other node changes.
C7_ExtractCharacters ==
  [][(Called({"extract"}) /\ SpansCharacters) =>
       LET n == range.start[1]
       IN /\ OneCloneReturned
          /\ dom'.data[n] =
               SubSeq(dom.data[n], 1, range.start[2])
                 \o SubSeq(dom.data[n], range.end[2] + 1, Len(dom.data[n]))
          /\ dom'.parent[n] = dom.parent[n]
          /\ dom'.nodeType[n] = dom.nodeType[n]
          /\ \A m \in Nodes \ {n} :
               (dom.nodeType[m] # "free" /\ dom'.nodeType[m] # "free") =>
                 /\ dom'.nodeType[m] = dom.nodeType[m]
                 /\ dom'.parent[m] = dom.parent[m]
                 /\ dom'.childNodes[m] = dom.childNodes[m]
                 /\ dom'.data[m] = dom.data[m]]_vars

\* extract has spliced characters out of the middle of a text-like node
C7_Witness ==
  /\ result.op = "extract"
  /\ result.thrown = "none"
  /\ result.original[1][1] = result.original[2][1]
  /\ 0 < result.original[1][2]
  /\ result.original[1][2] < result.original[2][2]
  /\ isCharacterDataNode(dom, result.original[1][1])
  /\ Len(dom.data[result.original[1][1]]) > result.original[1][2]

C9_RejectedCallsChangeNothing ==
  [][(Called({"setStart", "setEnd", "select", "insert"}) /\ ~Accepted) =>
       /\ range' = range
       /\ TreeUnchanged
       /\ \A n \in Nodes :
            dom.nodeType[n] = "free" => dom'.nodeType[n] = "free"]_vars

\* insert into a range that starts in a text node was rejected by the
\* pre-insertion validity check
C9_Witness ==
  /\ result.op = "insert"
  /\ result.thrown = "HierarchyRequestError"
  /\ isTextNode(dom, range.start[1])
  /\ dom.parent[range.start[1]] # Null
  /\ result.node # range.start[1]

\* C10: an accepted setStart sets the start to (node, offset) and sets the
\* end to it as well exactly when the point is After the end or node is in
\* another tree; setEnd sets the end and snaps the start exactly when the
\* point is Before the start or node is in another tree.
C10_SetSnaps ==
  [][(Called({"setStart", "setEnd"}) /\ Accepted) =>
       LET bp == <<result'.node, result'.offset>>
           otherTree == rootNode(dom, result'.node) # root(dom, range)
           snapEnd ==
             otherTree \/ position(dom, bp, range.end, "Undefined") = "After"
           snapStart ==
             otherTree
               \/ position(dom, bp, range.start, "Undefined") = "Before"
       IN IF result'.op = "setStart"
            THEN /\ range'.start = bp
                 /\ range'.end = IF snapEnd THEN bp ELSE range.end
            ELSE /\ range'.end = bp
                 /\ range'.start = IF snapStart THEN bp ELSE range.start]_vars

\* setEnd moved the end without touching the start
C10_Witness ==
  /\ result.op = "setEnd"
  /\ result.thrown = "none"
  /\ range.end = <<result.node, result.offset>>
  /\ range.start # range.end

\* C11: select throws InvalidNodeTypeError for a node without a parent and
\* else sets the range to (parent, index)-(parent, index + 1), so that node
\* is the only child of its parent that the range contains.
C11_SelectSpansNode ==
  [][Called({"select"}) =>
       LET node == result'.node
           parent == dom.parent[node]
       IN IF parent = Null
            THEN result'.thrown = "InvalidNodeTypeError"
            ELSE /\ Accepted
                 /\ range'.start = <<parent, index(dom, node)>>
                 /\ range'.end = <<parent, index(dom, node) + 1>>
                 /\ \A i \in 1..Len(dom'.childNodes[parent]) :
                      isContained(dom', dom'.childNodes[parent][i], range')
                        <=> dom'.childNodes[parent][i] = node]_vars

\* a node between two siblings has been selected
C11_Witness ==
  /\ result.op = "select"
  /\ result.thrown = "none"
  /\ range.start[2] = 1
  /\ Len(dom.childNodes[range.start[1]]) = 3
  /\ dom.childNodes[range.start[1]][2] = result.node

\* C12: select is idempotent: a second select of the same node, with the
\* tree as the first call left it, yields the range the first call yielded.
C12_SelectIdempotent ==
  [][(Called({"select"}) /\ Accepted) =>
       /\ select([dom |-> dom', range |-> range', thrown |-> "none",
                  ret |-> Null], result'.node).range = range'
       /\ (/\ result.op = "select"
           /\ result.thrown = "none"
           /\ result.node = result'.node) => range' = range]_vars

\* the first child of the root has been selected
C12_Witness ==
  /\ result.op = "select"
  /\ result.thrown = "none"
  /\ steps = 1
  /\ range.start = <<1, 0>>
  /\ range.end = <<1, 1>>
  /\ result.node = 2

\* C13: the current node of a walker that starts inside the subtree of its
\* root stays an inclusive descendant of the root over all traverseChildren
\* and traverseSiblings calls, and the root of the walker never changes.
C13_CurrentInsideRoot ==
  /\ [](walker.root # Null =>
          isAncestorOf(dom, walker.current, walker.root, TRUE))
  /\ [][walker'.root = walker.root]_vars

\* a walker whose root is not the root of the tree has gone through all the
\* siblings below its root and come back without a node
C13_Witness ==
  /\ walker.root = 2
  /\ walker.current = 5
  /\ walker.op = "traverseSiblings"
  /\ walker.forward
  /\ walker.pc = "idle"
  /\ walker.ret = Null
  /\ walker.filtered = {}

\* C14: every call of traverseChildren and traverseSiblings comes to an
\* end, and on a tree that is its root alone both return null in both
\* directions without asking the filter.
C14_Terminates ==
  /\ (walker.pc # "idle") ~> (walker.pc = "idle")
  /\ [][(dom = Forest4 /\ walker'.pc = "idle") =>
          /\ walker'.ret = Null
          /\ walker'.filtered = {}
          /\ walker'.current = walker.current]_vars

\* traverseSiblings has returned null on the tree that is its root alone
C14_Witness ==
  /\ dom = Forest4
  /\ walker.op = "traverseSiblings"
  /\ ~walker.forward
  /\ walker.pc = "idle"
  /\ walker.ret = Null

\* C15: a node a call returns is one the filter accepts and has become the
\* current node, it lies in the subtree of no node the call has filtered as
\* Reject, and a call that returns null leaves the current node as it was.
C15_FilterRespected ==
  [][(walker.pc # "idle" /\ walker'.pc = "idle") =>
       IF walker'.ret = Null
         THEN walker'.current = walker.current
         ELSE /\ filter(walker', walker'.ret) = "Accept"
              /\ walker'.ret \in walker'.filtered
              /\ walker'.current = walker'.ret
              /\ \A n \in walker'.filtered :
                   filter(walker', n) = "Reject" =>
                     ~isAncestorOf(dom, walker'.ret, n, TRUE)]_vars

\* a call has returned a child of a skipped node after it had passed over a
\* rejected node with children
C15_Witness ==
  /\ walker.pc = "idle"
  /\ walker.op = "traverseChildren"
  /\ walker.ret = 5
  /\ 4 \in walker.filtered
  /\ filter(walker, 4) = "Reject"
  /\ filter(walker, 2) = "Skip"
  /\ 2 \in walker.filtered

\* the call made by the step, and the attribute node x as the call found it
AttrCalled(ops) == steps' = steps + 1 /\ attributes'.call.op \in ops

Before(x) == attributes.attr[x]

\* the call queued one record and then ran one hook, both for the primitive
\* by and both while the lists and the owners were as before the call
QueuedThenRun(by) ==
  /\ Len(attributes'.log) = 2
  /\ attributes'.log[1].kind = "record"
  /\ attributes'.log[2].kind = "hook"
  /\ \A i \in 1..2 :
       /\ attributes'.log[i].by = by
       /\ attributes'.log[i].element = attributes'.call.element
       /\ attributes'.log[i].seen.list = attributes.list
       /\ \A x \in Attrs :
            attributes'.log[i].seen.attr[x].element = Before(x).element

\* C16: change queues exactly one mutation record, with the value the
\* attribute had before the call as old value; when the record is queued
\* and when the change hook runs the stored value is still the old one, and
\* after the call it is the new value.
C16_ChangeQueuesFirst ==
  [][LET c == attributes'.call
         x == getAnAttributeByNamespaceAndLocalName(attributes,
                orEmpty(c.namespace), c.localName, c.element)
     IN (AttrCalled({"setAnAttributeValue"}) /\ x # Null) =>
          /\ QueuedThenRun("change")
          /\ attributes'.log[1].old = Before(x).value
          /\ attributes'.log[1].localName = Before(x).localName
          /\ attributes'.log[1].seen.attr[x].value = Before(x).value
          /\ attributes'.log[2].old = Before(x).value
          /\ attributes'.log[2].new = c.value
          /\ attributes'.log[2].seen.attr[x].value = Before(x).value
          /\ attributes'.attr[x].value = c.value]_vars

\* the value of an attribute has been changed from "u" to "v"
C16_Witness ==
  /\ attributes.call.op = "setAnAttributeValue"
  /\ Len(attributes.log) = 2
  /\ attributes.log[1].by = "change"
  /\ attributes.log[1].old = "u"
  /\ attributes.call.value = "v"

\* C17: append, remove and replace queue one record (old value null, the
\* value of the attribute, the value of oldAttr), then run the change hook
\* with (null, value), (value, null), (old value, new value), and only then
\* change the list and the owners.
C17_QueueHookThenList ==
  [][(/\ AttrCalled({"setAnAttribute", "setAnAttributeValue",
                     "removeAnAttributeByName",
                     "removeAnAttributeByNamespaceAndLocalName"})
      /\ attributes'.log # <<>>
      /\ attributes'.log[1].by # "change") =>
       LET c == attributes'.call
           e == c.element
           by == attributes'.log[1].by
           record == attributes'.log[1]
           hook == attributes'.log[2]
           new == IF c.op = "setAnAttribute" THEN c.attr
                  ELSE firstFreeAttr(attributes)
       IN /\ QueuedThenRun(by)
          /\ by = "append" =>
               /\ record.old = NullString
               /\ hook.old = NullString
               /\ hook.new = attributes'.attr[new].value
               /\ attributes'.list[e] = Append(attributes.list[e], new)
               /\ attributes'.attr[new].element = e
          /\ by = "remove" =>
               /\ record.old = Before(c.ret).value
               /\ hook.old = Before(c.ret).value
               /\ hook.new = NullString
               /\ ~has(attributes', c.ret, e)
               /\ has(attributes, c.ret, e)
               /\ attributes'.attr[c.ret].element = Null
          /\ by = "replace" =>
               /\ record.old = Before(c.ret).value
               /\ hook.old = Before(c.ret).value
               /\ hook.new = Before(c.attr).value
               /\ attributes'.list[e] =
                    list_replace(attributes.list[e], c.ret, c.attr)
               /\ has(attributes, c.ret, e)
               /\ attributes'.attr[c.ret].element = Null
               /\ attributes'.attr[c.attr].element = e]_vars

\* an attribute of an element has been replaced by another one
C17_Witness ==
  /\ attributes.call.op = "setAnAttribute"
  /\ Len(attributes.log) = 2
  /\ attributes.log[1].by = "replace"
  /\ attributes.log[1].old = "u"
  /\ attributes.log[2].new = "v"
  /\ attributes.attr[1].element = Null
  /\ attributes.attr[2].element = 1

\* C18: no two attributes in the list of an element have the same
\* namespace and local name.
C18_UniqueNames ==
  \A e \in Elements :
    \A i, j \in 1..Len(attributes.list[e]) :
      (/\ attributes.attr[attributes.list[e][i]].namespace =
            attributes.attr[attributes.list[e][j]].namespace
       /\ attributes.attr[attributes.list[e][i]].localName =
            attributes.attr[attributes.list[e][j]].localName)
        => attributes.list[e][i] = attributes.list[e][j]

\* C19: an attribute is in the list of an element exactly when the element
\* is its owner, and no attribute is twice in a list.
C19_OwnerIsList ==
  /\ \A x \in Attrs, e \in Elements :
       has(attributes, x, e) <=> attributes.attr[x].element = e
  /\ \A e \in Elements :
       \A i, j \in 1..Len(attributes.list[e]) :
         attributes.list[e][i] = attributes.list[e][j] => i = j

\* C20: setAnAttribute with an attribute of another element throws
\* InUseAttributeError, queues no record, runs no hook and changes neither
\* a list nor an owner.
C20_InUseRejected ==
  [][(/\ AttrCalled({"setAnAttribute"})
      /\ Before(attributes'.call.attr).element # Null
      /\ Before(attributes'.call.attr).element # attributes'.call.element)
       => /\ attributes'.call.thrown = "InUseAttributeError"
          /\ attributes'.log = <<>>
          /\ attributes'.list = attributes.list
          /\ attributes'.attr = attributes.attr]_vars

\* setAnAttribute has rejected an attribute that element 1 owns
C20_Witness ==
  /\ attributes.call.op = "setAnAttribute"
  /\ attributes.call.thrown = "InUseAttributeError"
  /\ attributes.call.element = 2
  /\ attributes.attr[attributes.call.attr].element = 1
  /\ has(attributes, attributes.call.attr, 1)

\* the attributes in the list of element e, as the step found it, whose
\* namespace and local name are those given (no namespace being null or '')
Named(e, namespace, localName) ==
  {y \in Attrs : /\ has(attributes, y, e)
                 /\ orNull(Before(y).namespace) = orNull(namespace)
                 /\ Before(y).localName = localName}

\* the number of times attribute x is in the list s
Occurrences(s, x) == Cardinality({i \in 1..Len(s) : s[i] = x})

\* C21: a setAnAttribute that is not rejected returns the different
\* attribute with the namespace and local name of attr that was in the list
\* of the element, or null when there was none; afterwards attr is in the
\* list exactly once, where the replaced attribute was or at the end, and
\* the other attributes keep their order.
C21_SetAnAttributeReturnsReplaced ==
  [][(AttrCalled({"setAnAttribute"}) /\ attributes'.call.thrown = "none") =>
       LET c == attributes'.call
           e == c.element
           x == c.attr
           old == firstAttr(attributes.list[e],
                    Named(e, Before(x).namespace, Before(x).localName) \ {x})
       IN /\ c.ret = old
          /\ Occurrences(attributes'.list[e], x) = 1
          /\ old # Null =>
               attributes'.list[e] = list_replace(attributes.list[e], old, x)
          /\ old = Null =>
               \/ attributes'.list[e] = attributes.list[e]
               \/ attributes'.list[e] = Append(attributes.list[e], x)]_vars

\* C22: setAnAttributeValue appends one new attribute with the value when
\* the list has no attribute with the namespace and local name, and changes
\* the value of the attribute that has them otherwise, the list keeping its
\* length and order; getAnAttributeValue then returns the value.
C22_SetValueThenGet ==
  [][AttrCalled({"setAnAttributeValue"}) =>
       LET c == attributes'.call
           e == c.element
           found == Named(e, c.namespace, c.localName)
           new == firstFreeAttr(attributes)
       IN /\ found = {} =>
               /\ attributes'.list[e] = Append(attributes.list[e], new)
               /\ ~Before(new).made
               /\ attributes'.attr[new].value = c.value
          /\ found # {} =>
               /\ attributes'.list[e] = attributes.list[e]
               /\ \E y \in found : attributes'.attr[y].value = c.value
          /\ getAnAttributeValue(attributes', e, c.localName, c.namespace)
               = c.value]_vars

\* the number of appends, removes, changes and replaces the call has done:
\* each of them runs the change hook once
Performed == Cardinality({i \in 1..Len(attributes'.log) :
                            attributes'.log[i].kind = "hook"})

\* C23: every append, remove, change and replace done queues exactly one
\* record for the element, at the end of the observer queue, behind the
\* records of the earlier calls; a rejected setAnAttribute, a setAnAttribute
\* of an attribute that is in place and a removal by name of an absent
\* attribute queue no record.
C23_OneRecordPerOperation ==
  [][AttrCalled({"setAnAttribute", "setAnAttributeValue",
                 "removeAnAttributeByName",
                 "removeAnAttributeByNamespaceAndLocalName"}) =>
       LET c == attributes'.call
           e == c.element
           n == Len(attributes.queue)
       IN /\ Len(attributes'.queue) = n + Performed
          /\ SubSeq(attributes'.queue, 1, n) = attributes.queue
          /\ \A i \in (n + 1)..Len(attributes'.queue) :
               attributes'.queue[i].target = e
          /\ (\/ c.thrown # "none"
              \/ c.op = "setAnAttribute" /\ has(attributes, c.attr, e)
              \/ /\ c.op = "removeAnAttributeByName"
                 /\ \A y \in Attrs :
                      has(attributes, y, e) =>
                        Before(y).localName #
                          (IF isHTML(e) THEN toLowerCase(c.localName)
                           ELSE c.localName))
               => attributes'.queue = attributes.queue]_vars

\* the first check of insert rejects the start node of the range
StartNodeRejected ==
  \/ isProcessingInstructionNode(dom, range.start[1])
  \/ isCommentNode(dom, range.start[1])
  \/ isTextNode(dom, range.start[1]) /\ dom.parent[range.start[1]] = Null
  \/ range.start[1] = result'.node

\* C24: insert throws HierarchyRequestError when the start node of the range
\* is a processing instruction, a comment, a text node without a parent or
\* the node to insert; with any other start node a HierarchyRequestError
\* comes from the pre-insertion validity check only.
C24_InsertStartNodeCheck ==
  [][Called({"insert"}) =>
       /\ StartNodeRejected => result'.thrown = "HierarchyRequestError"
       /\ (~StartNodeRejected /\ result'.thrown = "HierarchyRequestError") =>
            ensurePreInsertionValidity(dom, result'.node,
              insertParentOf(dom, range), insertReferenceOf(dom, range))
              = "HierarchyRequestError"]_vars

\* insert of a text node that has a parent into a range that starts in it
\* has been rejected
C24_Witness ==
  /\ result.op = "insert"
  /\ result.thrown = "HierarchyRequestError"
  /\ result.node = range.start[1]
  /\ isTextNode(dom, result.node)
  /\ dom.parent[result.node] # Null

\* steps 7-12 of an insert that passed its checks: the call as it is when
\* node has been pre-inserted and the end of the range is still to be set
insertedAt(w7, node, parent, referenceNode) ==
  mutation_preInsert(
    IF w7.dom.parent[node] # Null THEN mutation_remove(w7, node) ELSE w7,
    node, parent,
    IF node = referenceNode THEN nextSibling(w7.dom, node)
    ELSE referenceNode)

insertedSplit(ws, node, parent) == insertedAt(ws, node, parent, ws.ret)

inserted(w, node) ==
  IF isTextNode(w.dom, w.range.start[1])
    THEN insertedSplit(text_split(w, w.range.start[1], w.range.start[2]),
                       node, insertParentOf(w.dom, w.range))
  ELSE insertedAt(w, node, insertParentOf(w.dom, w.range),
                  insertReferenceOf(w.dom, w.range))

\* the nodes that insert puts into the tree
InsertedContent ==
  IF isDocumentFragmentNode(dom, result'.node)
    THEN dom.childNodes[result'.node]
  ELSE <<result'.node>>

\* after the step the range ends just behind the inserted content, in the
\* parent it was inserted into, and contains that content and nothing else
EndsBehindContent ==
  /\ range'.end[1] = insertParentOf(dom, range)
  /\ InsertedContent # <<>> =>
       LET last == InsertedContent[Len(InsertedContent)]
       IN range'.end = <<dom'.parent[last], index(dom', last) + 1>>
  /\ \A n \in Nodes :
       (dom'.nodeType[n] # "free" /\ isContained(dom', n, range')) <=>
         \E i \in 1..Len(InsertedContent) :
           isAncestorOf(dom', n, InsertedContent[i], TRUE)

\* C25 as stated: insert moves the end of the range exactly when the range
\* was collapsed before the call.
C25_InsertRelocatesIfCollapsedBefore ==
  [][(Called({"insert"}) /\ Accepted) =>
       /\ collapsed(range) => EndsBehindContent
       /\ ~collapsed(range) =>
            range'.end = inserted(Calling, result'.node).range.end]_vars

\* C25: insert moves the end of the range exactly when the range is
\* collapsed once node has been pre-inserted, which a range collapsed before
\* the call always is; the end is then just behind the inserted content and
\* the range contains exactly that content; otherwise the end is left as
\* the insertion made it.
C25_InsertRelocatesIfCollapsedThen ==
  [][(Called({"insert"}) /\ Accepted) =>
       /\ range'.start = inserted(Calling, result'.node).range.start
       /\ collapsed(range) => collapsed(inserted(Calling, result'.node).range)
       /\ IF collapsed(inserted(Calling, result'.node).range)
            THEN EndsBehindContent
          ELSE range'.end = inserted(Calling, result'.node).range.end]_vars

\* node 2, the only node of the range (1, 0)-(1, 1), has been inserted at
\* its start: taking node 2 out collapsed the range, and the end was set
C25_Witness ==
  /\ result.op = "insert"
  /\ result.thrown = "none"
  /\ result.node = 2
  /\ result.original = <<<<1, 0>>, <<1, 1>>>>
  /\ dom = Forest1
  /\ range = [start |-> <<1, 0>>, end |-> <<1, 1>>]

\* the last child of the common ancestor of the range that is partially
\* contained in it, whatever its index
LastPartiallyContained ==
  LET cs == dom.childNodes[commonAncestorOf(dom, range)]
      hits == {i \in 1..Len(cs) : isPartiallyContained(dom, cs[i], range)}
  IN IF hits = {} THEN Null
     ELSE cs[CHOOSE i \in hits : \A j \in hits : i >= j]

\* C30: when the end node is not an inclusive ancestor of the start node,
\* extract and cloneContents end the returned fragment with what lies
\* before the end point in the last partially contained child of the common
\* ancestor, at whatever index that child is: a node of its kind and name,
\* with the characters before the end offset when it is the end node.
C30_LastPartiallyContainedUsed ==
  [][(/\ Called({"extract", "cloneContents"})
      /\ Accepted
      /\ ~isAncestorOf(dom, range.start[1], range.end[1], TRUE)) =>
       LET last == LastPartiallyContained
           kids == dom'.childNodes[result'.ret]
       IN /\ last # Null
          /\ kids # <<>>
          /\ dom'.nodeType[kids[Len(kids)]] = dom.nodeType[last]
          /\ dom'.localName[kids[Len(kids)]] = dom.localName[last]
          /\ (last = range.end[1] /\ isCharacterDataNode(dom, last)) =>
               dom'.data[kids[Len(kids)]] =
                 SubSeq(dom.data[last], 1, range.end[2])]_vars

\* the members of a list
Members(list) == {list[i] : i \in 1..Len(list)}

\* C26: removeRange takes a range that is in the list of live ranges out of
\* it and leaves the other ranges in their order; it leaves the list as it
\* is when the range is not in it; the range it was called with last is
\* not in the list, so that a second call with it changes nothing.
C26_RemoveRange ==
  [][Called({"removeRange"}) =>
       LET r == result'.node
       IN /\ rangeList' = SelectSeq(rangeList, LAMBDA x : x # r)
          /\ r \in Members(rangeList) => Len(rangeList') = Len(rangeList) - 1
          /\ r \notin Members(rangeList) => rangeList' = rangeList
          /\ r \notin Members(rangeList')
          /\ removeRange(rangeList', r) = rangeList']_vars

\* range 2 has been taken out from between the ranges 1 and 3
C26_Witness ==
  /\ result.op = "removeRange"
  /\ result.node = 2
  /\ result.original = <<1, 2, 3>>
  /\ rangeList = <<1, 3>>

\* the comparison of the points X and Y that the step has made
Compared(X, Y) == result.positions[<<X, Y>>]

\* C27: over three boundary points of one tree, position is Equal exactly
\* for the same node and offset, Before one way exactly when After the
\* other way, and Before is transitive.
C27_PositionTotalOrder ==
  result.op = "position" =>
    LET S == Members(result.original)
    IN /\ \A X, Y \in S :
            /\ Compared(X, Y) = "Equal" <=> X = Y
            /\ Compared(X, Y) = "Before" <=> Compared(Y, X) = "After"
       /\ \A X, Y, Z \in S :
            (Compared(X, Y) = "Before" /\ Compared(Y, Z) = "Before")
              => Compared(X, Z) = "Before"

\* (r, 1) in front of <b/>, (b, 0) and (the text of <c>, 1) have been
\* compared: each lies before the next
C27_Witness ==
  /\ result.op = "position"
  /\ dom = Forest1
  /\ result.original = <<<<1, 1>>, <<3, 0>>, <<6, 1>>>>
  /\ Compared(<<1, 1>>, <<3, 0>>) = "Before"
  /\ Compared(<<3, 0>>, <<6, 1>>) = "Before"
  /\ Compared(<<1, 1>>, <<6, 1>>) = "Before"
  /\ Compared(<<6, 1>>, <<1, 1>>) = "After"

\* the step is what pre-inserting the node of the call into parent before
\* child is: the same error or returned node, and the same tree
PreInserted(parent, child) ==
  LET w == mutation_preInsert(Calling, result'.node, parent, child)
  IN /\ result'.thrown = w.thrown
     /\ result'.ret = w.ret
     /\ dom' = release(w)
     /\ (w.thrown = "none"
         /\ ~isDocumentFragmentNode(dom, result'.node)) =>
          /\ result'.ret = result'.node
          /\ dom'.parent[result'.node] = parent
          /\ nextSibling(dom', result'.node) =
               (IF child = result'.node THEN nextSibling(dom, child)
                ELSE child)

\* what insertAdjacent does at the place named by the lower case word place
AdjacentAt(place) ==
  LET element == result'.original[1]
  IN /\ place \in {"beforebegin", "afterend"}
          /\ dom.parent[element] = Null =>
          /\ result'.thrown = "none"
          /\ result'.ret = Null
          /\ dom' = dom
     /\ place = "beforebegin" /\ dom.parent[element] # Null =>
          PreInserted(dom.parent[element], element)
     /\ place = "afterbegin" =>
          PreInserted(element, firstChild(dom, element))
     /\ place = "beforeend" => PreInserted(element, Null)
     /\ place = "afterend" /\ dom.parent[element] # Null =>
          PreInserted(dom.parent[element], nextSibling(dom, element))
     /\ place \notin {"beforebegin", "afterbegin", "beforeend", "afterend"}
          => /\ result'.thrown = "SyntaxError"
             /\ dom' = dom

\* C28 as stated: where is one of the four lower case words, and any other
\* value fails with SyntaxError.
C28_InsertAdjacentExactWords ==
  [][Called({"insertAdjacent"}) => AdjacentAt(result'.original[2])]_vars

\* C28: insertAdjacent returns null and leaves the tree as it is when the
\* place is beforebegin or afterend and the element has no parent; else it
\* pre-inserts node before the element, before its first child, at its end
\* or before its next sibling; the place is where read without regard to
\* case, and a where that is none of the four words in any case fails with
\* SyntaxError and changes nothing.
C28_InsertAdjacentAnyCase ==
  [][Called({"insertAdjacent"}) =>
       AdjacentAt(toLowerCase(result'.original[2]))]_vars

\* the text node "q" has been put behind <a> by where = "AfterEnd"
C28_Witness ==
  /\ result.op = "insertAdjacent"
  /\ result.original = <<2, "AfterEnd">>
  /\ result.node = 7
  /\ result.thrown = "none"
  /\ result.ret = 7
  /\ dom.childNodes[1] = <<2, 7, 3, 4>>

\* C29: dequeue takes out and returns the item that was put in earliest
\* of those in the queue and leaves the others in their order; on an empty
\* queue it returns null and leaves the queue empty; enqueue puts the item
\* behind the others.
C29_QueueFifo ==
  [][/\ Called({"dequeue"}) /\ queue # <<>> =>
          /\ result'.ret \in Members(queue)
          /\ \A item \in Members(queue) : result'.ret[2] <= item[2]
          /\ queue' = SelectSeq(queue, LAMBDA item : item # result'.ret)
          /\ Len(queue') = Len(queue) - 1
     /\ Called({"dequeue"}) /\ queue = <<>> =>
          /\ result'.ret = NoItem
          /\ queue' = <<>>
     /\ Called({"enqueue"}) =>
          /\ Len(queue') = Len(queue) + 1
          /\ SubSeq(queue', 1, Len(queue)) = queue]_vars

\* of three items put in, the first has been taken out and then the second
C29_Witness ==
  /\ result.op = "dequeue"
  /\ steps = 3
  /\ Len(result.original) = 2
  /\ Len(queue) = 1
  /\ result.ret[2] = 2
  /\ queue[1][2] = 3

\* the first child of the common ancestor of the range that is partially
\* contained in it is an element, and none of the contained children is a
\* document type
FirstPartialIsElement ==
  /\ ~collapsed(range)
  /\ firstPartiallyContainedChildOf(dom, range) # Null
  /\ ~isCharacterDataNode(dom, firstPartiallyContainedChildOf(dom, range))
  /\ \A i \in 1..Len(containedChildrenOf(dom, range)) :
       ~isDocumentTypeNode(dom, containedChildrenOf(dom, range)[i])

\* C31: when the first partially contained child is not a character data
\* node, extract and cloneContents return a fragment whose first child is a
\* clone of that child, of its kind and name, also when the start node lies
\* deeper in it, and the children of the clone are what the operation
\* yields for the part of the child from the start on.
C31_FirstCloneIsOfChild ==
  [][(/\ Called({"extract", "cloneContents"})
      /\ FirstPartialIsElement
      /\ result'.thrown \in {"none", "HierarchyRequestError"}) =>
       LET child == firstPartiallyContainedChildOf(dom, range)
           kids == dom'.childNodes[result'.ret]
       IN /\ Accepted
          /\ kids # <<>>
          /\ dom'.nodeType[kids[1]] = dom.nodeType[child]
          /\ dom'.localName[kids[1]] = dom.localName[child]
          /\ dom'.childNodes[kids[1]] # <<>>
               <=> range.start # <<child, nodeLength(dom, child)>>]_vars

\* the range is not collapsed and not inside one character data node
GeneralRange ==
  /\ ~collapsed(range)
  /\ ~(range.start[1] = range.end[1]
       /\ isCharacterDataNode(dom, range.start[1]))

\* the inclusive ancestor of the start node whose parent is an inclusive
\* ancestor of the end node
StartSideChild ==
  CHOOSE n \in Nodes :
    /\ dom.nodeType[n] # "free"
    /\ isAncestorOf(dom, range.start[1], n, TRUE)
    /\ dom.parent[n] # Null
    /\ isAncestorOf(dom, range.end[1], dom.parent[n], TRUE)
    /\ ~isAncestorOf(dom, range.end[1], n, TRUE)

\* C32: after extract on a range that is not collapsed and not inside one
\* character data node both ends of the range are the start point when
\* the start node is an inclusive ancestor of the end node, and else the
\* point behind the child of the common ancestor that holds the start
\* node, also when the end node is the common ancestor.
C32_ExtractNewPoint ==
  [][(Called({"extract"}) /\ Accepted /\ GeneralRange) =>
       LET point == IF isAncestorOf(dom, range.end[1], range.start[1], TRUE)
                      THEN range.start
                    ELSE <<dom.parent[StartSideChild],
                           index(dom, StartSideChild) + 1>>
       IN range' = [start |-> point, end |-> point]]_vars

\* a child of the common ancestor that the range contains is a document type
ContainsDoctype ==
  /\ GeneralRange
  /\ \E c \in Nodes :
       /\ isDocumentTypeNode(dom, c)
       /\ dom.parent[c] = commonAncestorOf(dom, range)
       /\ isContained(dom, c, range)

\* C33: extract and cloneContents throw HierarchyRequestError when a
\* contained child of the common ancestor is a document type, and leave
\* the tree and the range as they were: nothing has been moved, put into
\* the tree or spliced.
C33_DoctypeRejected ==
  [][(Called({"extract", "cloneContents"}) /\ ContainsDoctype) =>
       /\ result'.thrown = "HierarchyRequestError"
       /\ range' = range
       /\ dom' = dom]_vars

\* extract of the document type and the root element of a document has
\* been rejected
C33_Witness ==
  /\ result.op = "extract"
  /\ result.thrown = "HierarchyRequestError"
  /\ result.original = <<<<1, 0>>, <<1, 2>>>>
  /\ dom = Forest2
  /\ isDocumentTypeNode(dom, 2)
  /\ isContained(dom, 2, range)

\* the kind, name, data and children, in order and over the whole depth, of
\* node n of the tree t
RECURSIVE Shape(_, _)
Shape(t, n) ==
  [kind |-> t.nodeType[n], name |-> t.localName[n], data |-> t.data[n],
   kids |-> [i \in 1..Len(t.childNodes[n]) |->
               Shape(t, t.childNodes[n][i])]]

\* what extract does on the range and the tree the step started from
Extracted == extract(Calling, range, TRUE, FALSE)

\* C34: the fragment cloneContents returns has the kinds, names, data and
\* child order, over the whole depth, of the fragment that extract returns
\* for the same tree and range.
C34_CloneEqualsExtract ==
  [][(/\ Called({"cloneContents"})
      /\ Accepted
      /\ Extracted.thrown = "none") =>
       Shape(dom', result'.ret) = Shape(Extracted.dom, Extracted.ret)]_vars

\* the children of a node in the order a walk in the direction takes them
inOrder(t, node, forward) ==
  LET kids == t.childNodes[node]
  IN IF forward THEN kids
     ELSE [i \in 1..Len(kids) |-> kids[Len(kids) + 1 - i]]

\* the nodes of the subtrees of the nodes of a list, in document order when
\* the lists are in tree order and in mirrored document order when reversed
RECURSIVE documentOrder(_, _, _)
documentOrder(t, nodes, forward) ==
  IF nodes = <<>> THEN <<>>
  ELSE <<Head(nodes)>>
         \o documentOrder(t, inOrder(t, Head(nodes), forward), forward)
         \o documentOrder(t, Tail(nodes), forward)

\* the strict descendants of the current node the filter accepts with Skip on
\* every node between the current node and them
Reachable(t, wk) ==
  {d \in Allocated :
     /\ d # wk.current
     /\ isAncestorOf(t, d, wk.current, FALSE)
     /\ filter(wk, d) = "Accept"
     /\ \A n \in Allocated :
          (n # d /\ n # wk.current /\ isAncestorOf(t, d, n, FALSE)
             /\ isAncestorOf(t, n, wk.current, FALSE))
            => filter(wk, n) = "Skip"}

\* the first reachable node in the order of the walk, null without one
FirstReachable(t, wk) ==
  LET order == documentOrder(t, inOrder(t, wk.current, wk.forward),
                             wk.forward)
      found == SelectSeq(order, LAMBDA d : d \in Reachable(t, wk))
  IN IF found = <<>> THEN Null ELSE Head(found)

\* C35: traverseChildren returns the first node, in document order when it
\* walks forward and in mirrored document order when it walks backward, among
\* the strict descendants of the current node that the filter accepts and
\* that lie below skipped nodes only, and null when there is no such node.
C35_FirstReachableChild ==
  [][(walker.pc # "idle" /\ walker'.pc = "idle"
        /\ walker'.op = "traverseChildren") =>
       walker'.ret = FirstReachable(dom, walker)]_vars

\* a backward call has passed a rejected last child and a skipped node
\* without children and has returned the node before it
C35_Witness ==
  /\ walker.pc = "idle"
  /\ walker.op = "traverseChildren"
  /\ ~walker.forward
  /\ walker.ret = 4
  /\ walker.filtered = {3, 2, 5, 4}
  /\ filter(walker, 3) = "Reject"
  /\ filter(walker, 2) = "Skip"
  /\ filter(walker, 5) = "Skip"

\* the siblings at the level of the walk are used up and the parent of the
\* node of the walk is neither null nor the root of the walker
ClimbsTo(parent) ==
  /\ walker.pc = "siblings"
  /\ walker.sibling = Null
  /\ parent = dom.parent[walker.node]
  /\ parent # Null
  /\ parent # walker.root

\* C36: when traverseSiblings has found no accepted node at a level and
\* climbs to a parent that is neither null nor the root, it returns null if
\* the filter accepts the parent, whatever siblings the parent has, and goes
\* on with the siblings of the parent only if the parent is not accepted; the
\* call never returns an inclusive ancestor of the node it started at.
C36_ClimbStopsAtAcceptedParent ==
  /\ [][\A parent \in Nodes : ClimbsTo(parent) =>
          IF filter(walker, parent) = "Accept"
            THEN /\ walker'.pc = "idle"
                 /\ walker'.ret = Null
                 /\ walker'.current = walker.current
            ELSE /\ walker'.pc = "siblings"
                 /\ walker'.node = parent
                 /\ walker'.sibling = siblingOf(dom, parent, walker.forward)
                 /\ walker'.current = walker.current]_vars
  /\ [][(walker.pc # "idle" /\ walker'.pc = "idle"
           /\ walker'.op = "traverseSiblings" /\ walker'.ret # Null) =>
          ~isAncestorOf(dom, walker.current, walker'.ret, TRUE)]_vars

\* a call from the last child of a node has returned null at the accepted
\* parent, whose next sibling the filter accepts too
C36_Witness ==
  /\ walker.pc = "idle"
  /\ walker.op = "traverseSiblings"
  /\ walker.forward
  /\ walker.root = 1
  /\ walker.current = 5
  /\ walker.ret = Null
  /\ walker.filtered = {2}
  /\ filter(walker, 2) = "Accept"
  /\ filter(walker, 3) = "Accept"

\* C37: a call of traverseChildren or traverseSiblings that returns null
\* leaves the current node as it was, and traverseSiblings at the root
\* returns null without asking the filter; a call that returns a node has
\* made it the current node; a node traverseChildren returns is a strict
\* descendant of the current node before the call, and a node
\* traverseSiblings returns is neither an inclusive descendant nor an
\* ancestor of it.
C37_CurrentFollowsReturn ==
  [][walker'.pc = "idle" =>
       /\ walker'.ret = Null => walker'.current = walker.current
       /\ (walker'.op = "traverseSiblings" /\ walker.current = walker.root)
            => (walker'.ret = Null /\ walker'.filtered = {})
       /\ walker'.ret # Null =>
            /\ walker'.current = walker'.ret
            /\ walker'.ret # walker.current
            /\ IF walker'.op = "traverseChildren"
                 THEN isAncestorOf(dom, walker'.ret, walker.current, FALSE)
                 ELSE /\ ~isAncestorOf(dom, walker'.ret, walker.current, TRUE)
                      /\ ~isAncestorOf(dom, walker.current, walker'.ret,
                                       TRUE)]_vars

\* a backward traverseSiblings from the second child of a node has gone
\* into the skipped first child and returned its child
C37_Witness ==
  /\ walker.pc = "idle"
  /\ walker.op = "traverseSiblings"
  /\ ~walker.forward
  /\ walker.ret = 6
  /\ walker.current = 6
  /\ walker.filtered = {4, 6}
  /\ filter(walker, 4) = "Skip"

\* C38: for a range whose start is not after its end, no node is both
\* contained and partially contained, and an inclusive ancestor of the start
\* node or of the end node is not contained; a node is contained exactly if it
\* has the root of the range, its start is after the start of the range and
\* its end is before the end of the range, and partially contained exactly if
\* it is an inclusive ancestor of one of the start node and the end node and
\* not of the other.
C38_ContainedOrPartially ==
  result.op = "contains" =>
    LET node == result.node
        overStart == isAncestorOf(dom, range.start[1], node, TRUE)
        overEnd == isAncestorOf(dom, range.end[1], node, TRUE)
    IN /\ ~(result.isContained /\ result.isPartiallyContained)
       /\ (overStart \/ overEnd) => ~result.isContained
       /\ result.isPartiallyContained <=> (overStart # overEnd)
       /\ result.isContained <=>
            /\ rootNode(dom, node) = rootNode(dom, range.start[1])
            /\ position(dom, <<node, 0>>, range.start, "Undefined") = "After"
            /\ position(dom, <<node, nodeLength(dom, node)>>, range.end,
                        "Undefined") = "Before"

\* <c>, which holds the end of the range ('hel', 1)-('lo', 1) and lies
\* behind its start, has been found partially contained and not contained
C38_Witness ==
  /\ result.op = "contains"
  /\ dom = Forest1
  /\ range = [start |-> <<5, 1>>, end |-> <<6, 1>>]
  /\ result.node = 4
  /\ result.isPartiallyContained
  /\ ~result.isContained

\* the two boundary points of a pair lie in one tree
InOneTree(pair) ==
  /\ pair[1][1] # Null
  /\ pair[2][1] # Null
  /\ rootNode(dom, pair[1][1]) = rootNode(dom, pair[2][1])

\* C39: setStart and setEnd hand no two boundary points of different trees
\* to position; for a node of another tree the other end of the range is
\* snapped without the comparison.
C39_NoCrossTreeComparison ==
  /\ [][Called({"setStart"}) =>
          \A pair \in setTheStart_compares(Calling, result'.node,
                                           result'.offset) :
            InOneTree(pair)]_vars
  /\ [][Called({"setEnd"}) =>
          \A pair \in setTheEnd_compares(Calling, result'.node,
                                         result'.offset) :
            InOneTree(pair)]_vars

\* C40: after every extract that returns normally, whether the range was
\* collapsed, inside one character data node or over several nodes, the
\* range is collapsed at a point whose node is still in the tree the range
\* was in and whose offset is at most the length the node then has.
C40_ExtractLeavesValidPoint ==
  [][(Called({"extract"}) /\ Accepted) =>
       /\ range'.start = range'.end
       /\ range'.start[1] # Null
       /\ rootNode(dom', range'.start[1]) = root(dom, range)
       /\ range'.start[2] <= nodeLength(dom', range'.start[1])]_vars

====
